---- MODULE Spec2Model ----
(***************************************************************************)
(* State-machine model of the RLHF data collection pipeline                *)
(* (src/src/rlhf_data_collection): the episode/dataset manager             *)
(* RLHFDataCollector and the data quality gate RLHFDataQualityValidator.   *)
(*                                                                         *)
(* Units.  Real-valued quantities of the source are kept exact:            *)
(*   - timestamps are integer seconds of simulation time;                  *)
(*   - positions are integer km, velocities integer km/s;                  *)
(*   - rewards are integers in units of 0.25; the float value inf is the   *)
(*     sentinel Inf;                                                       *)
(*   - ratios and scores are exact fractions [n |-> num, d |-> den].       *)
(* Python lists are sequences, dicts with string keys are functions whose  *)
(* DOMAIN is the key set.  Objects that are shared by reference (Episode)  *)
(* live in a heap and are named by their index; None is the reference 0.   *)
(***************************************************************************)
EXTENDS Integers, Sequences, FiniteSets, TLC

VARIABLES
    config,                 \* config_manager.config as read by the constructors
    current_simulation_time,\* time_manager.current_simulation_time
    heap,                   \* Episode objects, addressed by reference (index)
    current_episode,        \* RLHFDataCollector.current_episode: reference or None
    episodes,               \* RLHFDataCollector.episodes: list of references
    state_history,          \* RLHFDataCollector.state_history
    action_history,         \* RLHFDataCollector.action_history
    reward_history,         \* RLHFDataCollector.reward_history
    validation_history,     \* RLHFDataCollector.validation_history
    collection_stats,       \* RLHFDataCollector.collection_stats
    historical_data,        \* RLHFDataQualityValidator.historical_data
    validation_stats,       \* RLHFDataQualityValidator.validation_stats
    current_strategy,       \* RLHFExpertPolicy.current_strategy
    ret,                    \* the last call: operation and returned value
    calls,                  \* number of calls made to collector and validator
    deviations,             \* number of those calls with a non-nominal input
    collected,              \* data points returned by collect_rlhf_data_point
                            \* since the last start_episode
    system                  \* _collect_scenario_data: its position and its locals

vars == <<config, current_simulation_time, heap, current_episode, episodes,
          state_history, action_history, reward_history, validation_history,
          collection_stats, historical_data, validation_stats,
          current_strategy, ret, calls, deviations, collected, system>>

collector_vars == <<heap, current_episode, episodes, state_history,
                    action_history, reward_history, validation_history,
                    collection_stats>>

validator_vars == <<historical_data, validation_stats>>

None == 0

\* Episode.end_time = None
NoTime == -1

(***************************************************************************)
(* Generic helpers.                                                        *)
(***************************************************************************)
RECURSIVE Flatten(_)
Flatten(ss) == IF ss = <<>> THEN <<>> ELSE Head(ss) \o Flatten(Tail(ss))

\* s[lo] + ... + s[hi], by halves
RECURSIVE SumRange(_, _, _)
SumRange(s, lo, hi) ==
    IF lo > hi THEN 0
    ELSE IF lo = hi THEN s[lo]
    ELSE LET mid == (lo + hi) \div 2
         IN SumRange(s, lo, mid) + SumRange(s, mid + 1, hi)

SumSeq(s) == SumRange(s, 1, Len(s))

Range(s) == {s[i] : i \in 1..Len(s)}

Min(a, b) == IF a <= b THEN a ELSE b

Max(a, b) == IF a >= b THEN a ELSE b

\* Python slice s[-n:] for n >= 1
LastN(s, n) == IF Len(s) <= n THEN s ELSE SubSeq(s, Len(s) - n + 1, Len(s))

\* A message of an errors / warnings / anomalies list: the text of the
\* f-string and the index it interpolates (NoIdx when it has none).
NoIdx == -1

Msg(text, idx) == [text |-> text, idx |-> idx]

\* sum of squares of the first n components of a vector
SumSq(v, n) == SumSeq([k \in 1..n |-> v[k] * v[k]])

\* s > m*m and s < m*m for s >= 0, m > 0, without forming m*m (which
\* leaves the 32-bit range for m = earth_radius + max_altitude)
gt_square(s, m) == s \div m > m \/ (s \div m = m /\ s % m > 0)

lt_square(s, m) == s \div m < m

(***************************************************************************)
(* Float sentinel.                                                         *)
(***************************************************************************)
Inf == 1000000000

isfinite(x) == x # Inf

(***************************************************************************)
(* RLHFDataQualityValidator (data_quality_validator.py).                   *)
(***************************************************************************)
earth_radius == 6371

min_altitude == 200

max_altitude == 50000

max_orbital_velocity == 15

max_missile_velocity == 8

\* quaternion_norm_tolerance 0.01, in units of 0.01
quaternion_norm_tolerance == 1

max_time_gap == 3600

min_time_step == 1

max_history_size == 1000

\* len(self.historical_data) < 10 in _detect_anomalies
min_history_for_anomalies == 10

\* len(historical_rewards) < 5 in _detect_statistical_outliers
min_rewards_for_outliers == 5

\* max_distance = 15.0 * 300.0 km in _detect_physical_anomalies
max_jump_distance == 4500

\* isinstance(v, dict): a value of another Python type is the record NotADict
NotADict == [pytype__ |-> "list"]

IsDict(v) == "pytype__" \notin DOMAIN v

\* field_path.split('.') for the dotted paths a configuration may list
split(field_path) ==
    CASE field_path = "timestamp" -> <<"timestamp">>
      [] field_path = "reward" -> <<"reward">>
      [] field_path = "state.satellite_positions" -> <<"state", "satellite_positions">>
      [] field_path = "state.missile_positions" -> <<"state", "missile_positions">>
      [] field_path = "state.visibility_matrix" -> <<"state", "visibility_matrix">>
      [] field_path = "state.coverage_ratio" -> <<"state", "coverage_ratio">>
      [] field_path = "state.satellite_velocities" -> <<"state", "satellite_velocities">>
      [] field_path = "action.satellite_actions" -> <<"action", "satellite_actions">>
      [] field_path = "action.mission_actions" -> <<"action", "mission_actions">>

\* the loop of _check_field_exists: attributes of the data point first, keys
\* of nested dicts after; no modelled field holds None
RECURSIVE walk_parts(_, _)
walk_parts(current, parts) ==
    IF parts = <<>> THEN TRUE
    ELSE IF Head(parts) \in DOMAIN current
         THEN walk_parts(current[Head(parts)], Tail(parts))
         ELSE FALSE

_check_field_exists(data_point, field_path) ==
    walk_parts(data_point, split(field_path))

_check_data_completeness(cfg, data_point) ==
    LET required_fields == cfg.completeness_checks.required_fields
        optional_fields == cfg.completeness_checks.optional_fields
        missing_threshold == cfg.completeness_checks.missing_data_threshold
        present_fields == SelectSeq(required_fields,
                              LAMBDA f : _check_field_exists(data_point, f))
        missing_fields == SelectSeq(required_fields,
                              LAMBDA f : ~_check_field_exists(data_point, f))
        optional_present == Cardinality({i \in 1..Len(optional_fields) :
                              _check_field_exists(data_point, optional_fields[i])})
        required_completeness ==
            IF required_fields # <<>>
            THEN [n |-> Len(present_fields), d |-> Len(required_fields)]
            ELSE [n |-> 1, d |-> 1]
        optional_completeness ==
            IF optional_fields # <<>>
            THEN [n |-> optional_present, d |-> Len(optional_fields)]
            ELSE [n |-> 1, d |-> 1]
        \* 0.8 * required_completeness + 0.2 * optional_completeness
        overall_completeness ==
            [n |-> 8 * required_completeness.n * optional_completeness.d
                   + 2 * optional_completeness.n * required_completeness.d,
             d |-> 10 * required_completeness.d * optional_completeness.d]
        \* missing_threshold is in units of 0.01
        is_complete == /\ Len(missing_fields) = 0
                       /\ 100 * overall_completeness.n
                            >= (100 - missing_threshold) * overall_completeness.d
    IN [is_complete |-> is_complete,
        completeness_score |-> overall_completeness,
        missing_fields |-> [i \in 1..Len(missing_fields) |-> Msg(missing_fields[i], NoIdx)],
        present_fields |-> present_fields,
        required_completeness |-> required_completeness,
        optional_completeness |-> optional_completeness]

\* errors of one positions list: a position must be a list of 3 finite numbers
position_format_errors(positions, bad_len, bad_values) ==
    Flatten([i \in 1..Len(positions) |->
        IF Len(positions[i]) # 3 THEN <<Msg(bad_len, i - 1)>>
        ELSE IF \E k \in 1..3 : ~isfinite(positions[i][k])
             THEN <<Msg(bad_values, i - 1)>>
             ELSE <<>>])

\* positions and matrix rows are always lists of integers here, so the
\* *_type and visibility_matrix errors of the source cannot arise
_validate_state_format(state) ==
    (IF "satellite_positions" \in DOMAIN state
     THEN position_format_errors(state.satellite_positions,
              "invalid_satellite_position", "invalid_satellite_position_values")
     ELSE <<>>)
    \o
    (IF "missile_positions" \in DOMAIN state
     THEN position_format_errors(state.missile_positions,
              "invalid_missile_position", "invalid_missile_position_values")
     ELSE <<>>)

_validate_action_format(action) ==
    (IF "satellite_actions" \in DOMAIN action
     THEN IF ~IsDict(action.satellite_actions)
          THEN <<Msg("invalid_satellite_actions_type", NoIdx)>>
          ELSE <<>>
     ELSE <<>>)
    \o
    (IF "mission_actions" \in DOMAIN action
     THEN IF ~IsDict(action.mission_actions)
          THEN <<Msg("invalid_mission_actions_type", NoIdx)>>
          ELSE IF "target_assignments" \in DOMAIN action.mission_actions
               THEN LET assignments == action.mission_actions.target_assignments
                    IN Flatten([i \in 1..Len(assignments) |->
                         IF {"satellite_id", "target_id"} \subseteq DOMAIN assignments[i]
                         THEN <<>>
                         ELSE <<Msg("incomplete_target_assignment", i - 1)>>])
               ELSE <<>>
     ELSE <<>>)

_validate_data_format(data_point) ==
    LET format_errors ==
            _validate_state_format(data_point.state)
            \o _validate_action_format(data_point.action)
            \o (IF ~isfinite(data_point.reward)
                THEN <<Msg("invalid_reward_value", NoIdx)>> ELSE <<>>)
    IN [is_valid |-> Len(format_errors) = 0,
        format_errors |-> format_errors]

_check_position_bounds(state) ==
    (IF "satellite_positions" \in DOMAIN state
     THEN Flatten([i \in 1..Len(state.satellite_positions) |->
            LET pos == state.satellite_positions[i]
            IN IF Len(pos) >= 3
               THEN \* altitude = sqrt(x*x + y*y + z*z) - earth_radius
                    IF lt_square(SumSq(pos, 3), earth_radius + min_altitude)
                    THEN <<Msg("satellite_altitude_too_low", i - 1)>>
                    ELSE IF gt_square(SumSq(pos, 3), earth_radius + max_altitude)
                         THEN <<Msg("satellite_altitude_too_high", i - 1)>>
                         ELSE <<>>
               ELSE <<>>])
     ELSE <<>>)
    \o
    (IF "missile_positions" \in DOMAIN state
     THEN Flatten([i \in 1..Len(state.missile_positions) |->
            LET pos == state.missile_positions[i]
            IN IF Len(pos) >= 3
               THEN \* altitude < -1.0
                    IF lt_square(SumSq(pos, 3), earth_radius - 1)
                    THEN <<Msg("missile_underground", i - 1)>>
                    ELSE IF gt_square(SumSq(pos, 3), earth_radius + max_altitude)
                         THEN <<Msg("missile_altitude_too_high", i - 1)>>
                         ELSE <<>>
               ELSE <<>>])
     ELSE <<>>)

_check_velocity_limits(state) ==
    (IF "satellite_velocities" \in DOMAIN state
     THEN Flatten([i \in 1..Len(state.satellite_velocities) |->
            LET vel == state.satellite_velocities[i]
            IN IF Len(vel) >= 3 /\ SumSq(vel, 3) > max_orbital_velocity * max_orbital_velocity
               THEN <<Msg("satellite_speed_too_high", i - 1)>>
               ELSE <<>>])
     ELSE <<>>)
    \o
    (IF "missile_velocities" \in DOMAIN state
     THEN Flatten([i \in 1..Len(state.missile_velocities) |->
            LET vel == state.missile_velocities[i]
            IN IF Len(vel) >= 3 /\ SumSq(vel, 3) > max_missile_velocity * max_missile_velocity
               THEN <<Msg("missile_speed_too_high", i - 1)>>
               ELSE <<>>])
     ELSE <<>>)

\* abs(norm - 1.0) > tolerance, squared: norm > 1 + t or norm < 1 - t
_check_attitude_constraints(state) ==
    IF "satellite_attitudes" \in DOMAIN state
    THEN Flatten([i \in 1..Len(state.satellite_attitudes) |->
           LET att == state.satellite_attitudes[i]
               hi == (100 + quaternion_norm_tolerance) * (100 + quaternion_norm_tolerance)
               lo == (100 - quaternion_norm_tolerance) * (100 - quaternion_norm_tolerance)
           IN IF Len(att) >= 4
                 /\ (10000 * SumSq(att, 4) > hi \/ 10000 * SumSq(att, 4) < lo)
              THEN <<Msg("satellite_quaternion_norm_invalid", i - 1)>>
              ELSE <<>>])
    ELSE <<>>

_check_physical_constraints(cfg, data_point) ==
    LET state == data_point.state
        constraint_violations ==
            (IF cfg.validation_rules.position_bounds
             THEN _check_position_bounds(state) ELSE <<>>)
            \o (IF cfg.validation_rules.velocity_limits
                THEN _check_velocity_limits(state) ELSE <<>>)
            \o (IF cfg.validation_rules.attitude_constraints
                THEN _check_attitude_constraints(state) ELSE <<>>)
    IN [is_valid |-> Len(constraint_violations) = 0,
        constraint_violations |-> constraint_violations]

\* a check that already warns at a gap of exactly max_time_gap
_check_temporal_consistency_closed_gap(hist, data_point) ==
    LET current_time == data_point.timestamp
        inconsistencies ==
            IF hist # <<>>
            THEN LET last_time == hist[Len(hist)].timestamp
                     time_gap == current_time - last_time
                 IN IF time_gap >= max_time_gap
                    THEN <<Msg("time_gap_too_large", NoIdx)>>
                    ELSE IF time_gap < min_time_step
                         THEN <<Msg("time_step_too_small", NoIdx)>>
                         ELSE <<>>
            ELSE <<>>
    IN [is_consistent |-> Len(inconsistencies) = 0,
        inconsistencies |-> inconsistencies]

_check_temporal_consistency(hist, data_point) ==
    LET current_time == data_point.timestamp
        inconsistencies ==
            IF hist # <<>>
            THEN LET last_time == hist[Len(hist)].timestamp
                     time_gap == current_time - last_time
                 IN IF time_gap > max_time_gap
                    THEN <<Msg("time_gap_too_large", NoIdx)>>
                    ELSE IF time_gap < min_time_step
                         THEN <<Msg("time_step_too_small", NoIdx)>>
                         ELSE <<>>
            ELSE <<>>
    IN [is_consistent |-> Len(inconsistencies) = 0,
        inconsistencies |-> inconsistencies]

\* abs(reward - mean) > 3 * std over the rewards of the history, with
\* n = len, S = sum, Q = sum of squares: (n*r - S)^2 > 9 * (n*Q - S^2).
\* A non-finite reward in the history makes std nan and the test false; a
\* non-finite current reward against a finite history makes it true.
_detect_statistical_outliers(hist, data_point) ==
    LET historical_rewards == [i \in 1..Len(hist) |-> hist[i].reward]
        n == Len(historical_rewards)
        S == SumSeq(historical_rewards)
        Q == SumSeq([i \in 1..n |-> historical_rewards[i] * historical_rewards[i]])
        r == data_point.reward
    IN IF n < min_rewards_for_outliers THEN <<>>
       ELSE IF \E i \in 1..n : ~isfinite(historical_rewards[i]) THEN <<>>
       ELSE IF ~isfinite(r) THEN <<Msg("reward_outlier", NoIdx)>>
       ELSE IF (n * r - S) * (n * r - S) > 9 * (n * Q - S * S)
            THEN <<Msg("reward_outlier", NoIdx)>>
            ELSE <<>>

_detect_physical_anomalies(hist, data_point) ==
    LET state == data_point.state
    IN IF "satellite_positions" \in DOMAIN state /\ hist # <<>>
       THEN LET last_state == hist[Len(hist)].state
                last_positions == IF "satellite_positions" \in DOMAIN last_state
                                  THEN last_state.satellite_positions ELSE <<>>
                current_positions == state.satellite_positions
                m == Min(Len(current_positions), Len(last_positions))
            IN Flatten([i \in 1..m |->
                 LET curr_pos == current_positions[i]
                     last_pos == last_positions[i]
                     k == Min(Len(curr_pos), Len(last_pos))
                     d2 == SumSeq([j \in 1..k |->
                              (curr_pos[j] - last_pos[j]) * (curr_pos[j] - last_pos[j])])
                 IN IF Len(curr_pos) >= 3 /\ Len(last_pos) >= 3
                       /\ d2 > max_jump_distance * max_jump_distance
                    THEN <<Msg("satellite_position_jump", i - 1)>>
                    ELSE <<>>])
       ELSE <<>>

_detect_temporal_anomalies(hist, data_point) ==
    IF hist = <<>> THEN <<>>
    ELSE IF data_point.timestamp < hist[Len(hist)].timestamp
         THEN <<Msg("time_regression", NoIdx)>>
         ELSE <<>>

\* a detector that starts as soon as the outlier statistics have their
\* minimum of rewards
_detect_anomalies_from_5(cfg, hist, data_point) ==
    IF Len(hist) < min_rewards_for_outliers
    THEN [anomalies |-> <<>>, anomaly_score |-> [n |-> 0, d |-> 10]]
    ELSE LET anomalies ==
                 (IF cfg.anomaly_detection.statistical_outliers
                  THEN _detect_statistical_outliers(hist, data_point) ELSE <<>>)
                 \o (IF cfg.anomaly_detection.physical_constraints
                     THEN _detect_physical_anomalies(hist, data_point) ELSE <<>>)
                 \o (IF cfg.anomaly_detection.temporal_anomalies
                     THEN _detect_temporal_anomalies(hist, data_point) ELSE <<>>)
         IN [anomalies |-> anomalies,
             anomaly_score |-> [n |-> Min(10, Len(anomalies)), d |-> 10]]

_detect_anomalies(cfg, hist, data_point) ==
    IF Len(hist) < min_history_for_anomalies
    THEN [anomalies |-> <<>>, anomaly_score |-> [n |-> 0, d |-> 10]]
    ELSE LET anomalies ==
                 (IF cfg.anomaly_detection.statistical_outliers
                  THEN _detect_statistical_outliers(hist, data_point) ELSE <<>>)
                 \o (IF cfg.anomaly_detection.physical_constraints
                     THEN _detect_physical_anomalies(hist, data_point) ELSE <<>>)
                 \o (IF cfg.anomaly_detection.temporal_anomalies
                     THEN _detect_temporal_anomalies(hist, data_point) ELSE <<>>)
         IN [anomalies |-> anomalies,
             \* min(1.0, len(anomalies) / 10.0)
             anomaly_score |-> [n |-> Min(10, Len(anomalies)), d |-> 10]]

\* a score that leaves the completeness score out
_calculate_quality_score_unscaled(validation_result) ==
    LET error_count == Len(validation_result.errors)
        warning_count == Len(validation_result.warnings)
        anomaly_count == Len(validation_result.anomalies)
        base == 100 - 30 * error_count - 10 * warning_count - 5 * anomaly_count
    IN IF base <= 0 THEN [n |-> 0, d |-> 1]
       ELSE IF base >= 100 THEN [n |-> 1, d |-> 1]
       ELSE [n |-> base, d |-> 100]

\* score = (1.0 - 0.3*errors - 0.1*warnings - 0.05*anomalies) * completeness,
\* clipped to [0, 1]; in hundredths, as an exact fraction
_calculate_quality_score(validation_result) ==
    LET error_count == Len(validation_result.errors)
        warning_count == Len(validation_result.warnings)
        anomaly_count == Len(validation_result.anomalies)
        base == 100 - 30 * error_count - 10 * warning_count - 5 * anomaly_count
        completeness_score == validation_result.quality_metrics.completeness.completeness_score
        num == base * completeness_score.n
        den == 100 * completeness_score.d
    IN IF num <= 0 THEN [n |-> 0, d |-> 1]
       ELSE IF num >= den THEN [n |-> 1, d |-> 1]
       ELSE [n |-> num, d |-> den]

\* a validator for which a physical-constraint violation is fatal too
is_valid_physics_fatal(completeness_result, format_result, physics_result, temporal_result, anomalies) ==
    /\ completeness_result.is_complete
    /\ format_result.is_valid
    /\ physics_result.is_valid

\* validation_result['is_valid']: True at first, set to False where the
\* completeness or the format result is tested; the physics and temporal
\* results and the anomalies are passed through the same code and assign
\* nothing to it
is_valid_of(completeness_result, format_result, physics_result, temporal_result, anomalies) ==
    /\ completeness_result.is_complete
    /\ format_result.is_valid

\* the record validate_rlhf_data_point returns, computed against the
\* history as it is before the call
validation_result_of(cfg, hist, data_point) ==
    LET completeness_result == _check_data_completeness(cfg, data_point)
        format_result == _validate_data_format(data_point)
        physics_result == _check_physical_constraints(cfg, data_point)
        temporal_result == _check_temporal_consistency(hist, data_point)
        enabled == cfg.anomaly_detection.statistical_outliers
        anomaly_result == _detect_anomalies(cfg, hist, data_point)
        errors == (IF ~completeness_result.is_complete
                   THEN completeness_result.missing_fields ELSE <<>>)
                  \o (IF ~format_result.is_valid
                      THEN format_result.format_errors ELSE <<>>)
        warnings == (IF ~physics_result.is_valid
                     THEN physics_result.constraint_violations ELSE <<>>)
                    \o (IF ~temporal_result.is_consistent
                        THEN temporal_result.inconsistencies ELSE <<>>)
        anomalies == IF enabled THEN anomaly_result.anomalies ELSE <<>>
        quality_metrics ==
            [completeness |-> completeness_result,
             format |-> format_result,
             physics |-> physics_result,
             temporal |-> temporal_result]
            @@ (IF enabled
                THEN [anomaly_score |-> anomaly_result.anomaly_score]
                ELSE <<>>)
        partial == [is_valid |-> is_valid_of(completeness_result, format_result,
                                             physics_result, temporal_result,
                                             anomalies),
                    errors |-> errors,
                    warnings |-> warnings,
                    anomalies |-> anomalies,
                    quality_metrics |-> quality_metrics]
    IN [is_valid |-> partial.is_valid,
        validation_score |-> _calculate_quality_score(partial),
        errors |-> errors,
        warnings |-> warnings,
        anomalies |-> anomalies,
        quality_metrics |-> quality_metrics]

\* a history that keeps its oldest records: historical_data[:max_history_size]
_update_historical_data_keeps_oldest(hist, data_point, validation_result) ==
    LET record == [timestamp |-> data_point.timestamp,
                   reward |-> data_point.reward,
                   state |-> data_point.state,
                   validation_score |-> validation_result.validation_score]
        appended == Append(hist, record)
    IN IF Len(appended) > max_history_size
       THEN SubSeq(appended, 1, max_history_size)
       ELSE appended

_update_historical_data(hist, data_point, validation_result) ==
    LET record == [timestamp |-> data_point.timestamp,
                   reward |-> data_point.reward,
                   state |-> data_point.state,
                   validation_score |-> validation_result.validation_score]
        appended == Append(hist, record)
    IN IF Len(appended) > max_history_size
       THEN LastN(appended, max_history_size)
       ELSE appended

\* the validator's counters after one validate_rlhf_data_point call
validation_stats_after(stats, enabled, validation_result) ==
    [total_validations |-> stats.total_validations + 1,
     passed_validations |-> stats.passed_validations
                              + (IF validation_result.is_valid THEN 1 ELSE 0),
     failed_validations |-> stats.failed_validations
                              + (IF validation_result.is_valid THEN 0 ELSE 1),
     anomaly_detections |-> stats.anomaly_detections
                              + (IF enabled /\ validation_result.anomalies # <<>>
                                 THEN 1 ELSE 0)]

(***************************************************************************)
(* Configurations (config_manager.config).  A missing section or key is    *)
(* given the default the constructors' .get(..., default) calls supply;    *)
(* stk_manager tells whether the collector was constructed with one (and   *)
(* so has an action executor).                                             *)
(***************************************************************************)
EmptyDict == [k \in {} |-> 0]

\* no 'data_quality' and no 'rlhf_data_collection' section at all
ConfigBare ==
    [completeness_checks |-> [required_fields |-> <<>>,
                              optional_fields |-> <<>>,
                              missing_data_threshold |-> 5],
     validation_rules |-> [position_bounds |-> FALSE,
                           velocity_limits |-> FALSE,
                           attitude_constraints |-> FALSE],
     anomaly_detection |-> [statistical_outliers |-> FALSE,
                            physical_constraints |-> FALSE,
                            temporal_anomalies |-> FALSE],
     state_space |-> [satellite_position |-> FALSE,
                      missile_position |-> FALSE],
     reward_components |->
         [tracking_performance |-> [coverage_time |-> FALSE, tracking_accuracy |-> FALSE,
                                    target_detection |-> FALSE],
          resource_efficiency |-> [power_consumption |-> FALSE,
                                   communication_bandwidth |-> FALSE,
                                   computational_load |-> FALSE],
          mission_completion |-> [threat_neutralization |-> FALSE, response_time |-> FALSE,
                                  coverage_completeness |-> FALSE]],
     stk_manager |-> FALSE]

\* every check enabled, state fields required
ConfigFull ==
    [completeness_checks |-> [required_fields |-> <<"timestamp",
                                                    "state.satellite_positions",
                                                    "state.missile_positions",
                                                    "action.satellite_actions",
                                                    "reward">>,
                              optional_fields |-> <<"state.visibility_matrix",
                                                    "state.coverage_ratio">>,
                              missing_data_threshold |-> 5],
     validation_rules |-> [position_bounds |-> TRUE,
                           velocity_limits |-> TRUE,
                           attitude_constraints |-> TRUE],
     anomaly_detection |-> [statistical_outliers |-> TRUE,
                            physical_constraints |-> TRUE,
                            temporal_anomalies |-> TRUE],
     state_space |-> [satellite_position |-> TRUE,
                      missile_position |-> TRUE],
     reward_components |->
         [tracking_performance |-> [coverage_time |-> TRUE, tracking_accuracy |-> TRUE,
                                    target_detection |-> TRUE],
          resource_efficiency |-> [power_consumption |-> TRUE,
                                   communication_bandwidth |-> TRUE,
                                   computational_load |-> TRUE],
          mission_completion |-> [threat_neutralization |-> TRUE, response_time |-> TRUE,
                                  coverage_completeness |-> TRUE]],
     stk_manager |-> TRUE]

\* state fields listed as optional only
ConfigOptional ==
    [completeness_checks |-> [required_fields |-> <<"timestamp", "reward">>,
                              optional_fields |-> <<"state.satellite_positions",
                                                    "state.missile_positions">>,
                              missing_data_threshold |-> 5],
     validation_rules |-> [position_bounds |-> TRUE,
                           velocity_limits |-> FALSE,
                           attitude_constraints |-> FALSE],
     anomaly_detection |-> [statistical_outliers |-> TRUE,
                            physical_constraints |-> FALSE,
                            temporal_anomalies |-> FALSE],
     state_space |-> [satellite_position |-> TRUE,
                      missile_position |-> TRUE],
     reward_components |->
         [tracking_performance |-> [coverage_time |-> TRUE, tracking_accuracy |-> FALSE,
                                    target_detection |-> TRUE],
          resource_efficiency |-> [power_consumption |-> TRUE,
                                   communication_bandwidth |-> FALSE,
                                   computational_load |-> FALSE],
          mission_completion |-> [threat_neutralization |-> TRUE, response_time |-> TRUE,
                                  coverage_completeness |-> FALSE]],
     stk_manager |-> FALSE]

Configs == {ConfigBare, ConfigFull, ConfigOptional}

(***************************************************************************)
(* Construction: RLHFDataCollector.__init__ and                            *)
(* RLHFDataQualityValidator.__init__.                                      *)
(***************************************************************************)
StartTime == 0

\* _collect_scenario_data before its first call: position, number of calls,
\* the loop's locals, the episode it started and the value it returned
NotCalled ==
    [pc |-> "idle", runs |-> 0, step_count |-> 0, max_steps |-> 0,
     episode_done |-> FALSE, started |-> None, returned |-> None]

Init ==
    /\ config \in Configs
    /\ current_simulation_time = StartTime
    /\ heap = <<>>
    /\ current_episode = None
    /\ episodes = <<>>
    /\ state_history = <<>>
    /\ action_history = <<>>
    /\ reward_history = <<>>
    /\ validation_history = <<>>
    /\ collection_stats = [total_data_points |-> 0,
                           valid_data_points |-> 0,
                           invalid_data_points |-> 0,
                           average_reward |-> [n |-> 0, d |-> 1],
                           average_quality_score |-> [n |-> 0, d |-> 1]]
    /\ historical_data = <<>>
    /\ current_strategy = "balanced"
    /\ validation_stats = [total_validations |-> 0,
                           passed_validations |-> 0,
                           failed_validations |-> 0,
                           anomaly_detections |-> 0]
    /\ ret = [op |-> "init"]
    /\ calls = 0
    /\ deviations = 0
    /\ collected = <<>>
    /\ system = NotCalled

(***************************************************************************)
(* The validator driven directly: validate_rlhf_data_point on data points  *)
(* built by the caller, as test_rlhf_data_collection.py does.              *)
(***************************************************************************)
RLHFDataPoint(timestamp, state, action, reward, next_state, done, info) ==
    [timestamp |-> timestamp, state |-> state, action |-> action,
     reward |-> reward, next_state |-> next_state, done |-> done, info |-> info]

\* the states of the test data points and deviations of them
NormalState ==
    [satellite_positions |-> << <<7000, 0, 0>> >>,
     missile_positions |-> << <<6500, 0, 0>> >>,
     visibility_matrix |-> << <<1>> >>,
     coverage_ratio |-> [n |-> 1, d |-> 2]]

\* satellite below min_altitude
LowState == [NormalState EXCEPT !.satellite_positions = << <<6400, 0, 0>> >>]

\* satellite displaced by more than max_jump_distance, altitude in bounds
JumpState == [NormalState EXCEPT !.satellite_positions = << <<0, 20000, 0>> >>]

\* satellite below min_altitude and displaced by more than max_jump_distance
LowJumpState == [NormalState EXCEPT !.satellite_positions = << <<0, 6400, 0>> >>]

\* a position that is not a triple
ShortState == [NormalState EXCEPT !.satellite_positions = << <<7000, 0>> >>]

NormalAction ==
    [satellite_actions |->
        [Satellite01 |-> [payload_pointing |-> [pointing_mode |-> "tracking"]]],
     mission_actions |-> [target_assignments |-> <<>>]]

BadAction == [satellite_actions |-> NotADict]

NormalReward == 3

NormalStep == 30

\* what a test point may deviate in: one of state, action, reward, time step,
\* or all of state, reward and time step without breaking the format
Deviations ==
    {[state |-> s, action |-> NormalAction, reward |-> NormalReward, step |-> NormalStep]
        : s \in {EmptyDict, LowState, JumpState, ShortState}}
    \cup {[state |-> NormalState, action |-> BadAction, reward |-> NormalReward, step |-> NormalStep]}
    \cup {[state |-> NormalState, action |-> NormalAction, reward |-> r, step |-> NormalStep]
        : r \in {400, Inf}}
    \cup {[state |-> NormalState, action |-> NormalAction, reward |-> NormalReward, step |-> d]
        : d \in {-30, 1, 3600, 4000}}
    \cup {[state |-> LowJumpState, action |-> NormalAction, reward |-> 400, step |-> -30]}

Nominal == [state |-> NormalState, action |-> NormalAction,
            reward |-> NormalReward, step |-> NormalStep]

MaxValidations == 11

MaxDeviations == 1

\* the bookkeeping of one call
Count(nominal) ==
    /\ calls' = calls + 1
    /\ deviations' = deviations + (IF nominal THEN 0 ELSE 1)

\* timestamp of the point validated last, StartTime before the first
LastTimestamp == IF historical_data = <<>> THEN StartTime
                 ELSE historical_data[Len(historical_data)].timestamp

validate_rlhf_data_point(data_point, nominal) ==
    \E validation_result \in
          {validation_result_of(config, historical_data, data_point)} :
    LET enabled == config.anomaly_detection.statistical_outliers
    IN /\ historical_data' = _update_historical_data(historical_data, data_point,
                                                     validation_result)
       /\ validation_stats' = validation_stats_after(validation_stats, enabled,
                                                     validation_result)
       /\ ret' = [op |-> "validate", data_point |-> data_point,
                  result |-> validation_result]
       /\ Count(nominal)
       /\ UNCHANGED <<config, current_strategy, current_simulation_time, collector_vars, collected>>

ValidateNominal ==
    /\ calls < MaxValidations
    /\ validate_rlhf_data_point(
           RLHFDataPoint(LastTimestamp + Nominal.step, Nominal.state, Nominal.action,
                         Nominal.reward, EmptyDict, FALSE, EmptyDict), TRUE)
    /\ UNCHANGED system

ValidateDeviating ==
    /\ calls < MaxValidations
    /\ deviations < MaxDeviations
    /\ \E p \in Deviations :
          validate_rlhf_data_point(
              RLHFDataPoint(LastTimestamp + p.step, p.state, p.action,
                            p.reward, EmptyDict, FALSE, EmptyDict), FALSE)
    /\ UNCHANGED system

NextV == ValidateNominal \/ ValidateDeviating

SpecV == Init /\ [][NextV]_vars

(***************************************************************************)
(* State extraction (rlhf_data_collector.py, _extract_state_vector and     *)
(* the _extract_* methods).  state_space flags other than the satellite    *)
(* and missile position flags are absent from every modelled               *)
(* configuration, so the blocks they guard are not produced.               *)
(***************************************************************************)
\* dict.get(key, default)
Get(d, key, default) == IF key \in DOMAIN d THEN d[key] ELSE default

position_list(pos) == <<Get(pos, "x", 0), Get(pos, "y", 0), Get(pos, "z", 0)>>

_get_empty_satellite_state ==
    [satellite_positions |-> <<>>,
     satellite_velocities |-> <<>>,
     satellite_attitudes |-> <<>>,
     satellite_orbital_elements |-> <<>>,
     satellite_power_states |-> <<>>,
     satellite_payload_states |-> <<>>]

_get_empty_missile_state ==
    [missile_positions |-> <<>>,
     missile_velocities |-> <<>>,
     missile_trajectory_predictions |-> <<>>,
     missile_threat_levels |-> <<>>,
     missile_flight_phases |-> <<>>,
     missile_remaining_times |-> <<>>]

_extract_satellite_states(cfg, satellites) ==
    IF satellites = <<>> THEN _get_empty_satellite_state
    ELSE IF cfg.state_space.satellite_position
         THEN [satellite_positions |->
                  [i \in 1..Len(satellites) |->
                      position_list(Get(satellites[i], "position", EmptyDict))]]
         ELSE EmptyDict

_extract_missile_states(cfg, missiles) ==
    IF missiles = <<>> THEN _get_empty_missile_state
    ELSE IF cfg.state_space.missile_position
         THEN [missile_positions |->
                  [i \in 1..Len(missiles) |->
                      position_list(Get(missiles[i], "position", EmptyDict))]]
         ELSE EmptyDict

\* ids are positive integers ordered as the id strings sort; 0 is the empty
\* id ''.  index of an id = its rank among the ids the visibility data names
id_to_index(ids, id) == Cardinality({x \in ids : x < id})

\* the matrix of num_satellites rows and num_missiles columns, filled from the
\* visibility entries
fill_matrix(visibility_data, num_satellites, num_missiles) ==
    LET satellite_ids == {Get(visibility_data[k], "satellite_id", 0)
                             : k \in 1..Len(visibility_data)} \ {0}
        missile_ids == {Get(visibility_data[k], "missile_id", 0)
                             : k \in 1..Len(visibility_data)} \ {0}
        \* the entries that write cell (i, j), 0-based
        writers(i, j) ==
            {k \in 1..Len(visibility_data) :
                LET sat_id == Get(visibility_data[k], "satellite_id", 0)
                    missile_id == Get(visibility_data[k], "missile_id", 0)
                IN /\ sat_id \in satellite_ids
                   /\ missile_id \in missile_ids
                   /\ id_to_index(satellite_ids, sat_id) = i
                   /\ id_to_index(missile_ids, missile_id) = j}
        \* the last write wins
        cell(i, j) ==
            IF writers(i, j) = {} THEN 0
            ELSE LET k == CHOOSE k \in writers(i, j) :
                              \A m \in writers(i, j) : m <= k
                 IN IF Get(visibility_data[k], "has_visibility", FALSE)
                    THEN 1 ELSE 0
    IN [i \in 1..num_satellites |->
          [j \in 1..num_missiles |-> cell(i - 1, j - 1)]]

\* a matrix built without the test for an empty side
_create_visibility_matrix_unguarded(visibility_data, num_satellites, num_missiles) ==
    fill_matrix(visibility_data, num_satellites, num_missiles)

_create_visibility_matrix(visibility_data, num_satellites, num_missiles) ==
    IF num_satellites = 0 \/ num_missiles = 0 THEN <<>>
    ELSE fill_matrix(visibility_data, num_satellites, num_missiles)

_extract_visibility_states(visibility_data, num_satellites, num_missiles) ==
    LET visibility_matrix ==
            _create_visibility_matrix(visibility_data, num_satellites, num_missiles)
    IN IF visibility_matrix # <<>>
       THEN LET total_pairs == num_satellites * num_missiles
                covered_pairs == SumSeq([i \in 1..Len(visibility_matrix) |->
                                            SumSeq(visibility_matrix[i])])
            IN [visibility_matrix |-> visibility_matrix,
                coverage_ratio |-> IF total_pairs > 0
                                   THEN [n |-> covered_pairs, d |-> total_pairs]
                                   ELSE [n |-> 0, d |-> 1],
                satellite_coverage_counts |->
                    [i \in 1..Len(visibility_matrix) |-> SumSeq(visibility_matrix[i])],
                missile_coverage_counts |->
                    IF Len(visibility_matrix[1]) > 0
                    THEN [j \in 1..Len(visibility_matrix[1]) |->
                            SumSeq([i \in 1..Len(visibility_matrix) |->
                                       visibility_matrix[i][j]])]
                    ELSE <<>>]
       ELSE [visibility_matrix |-> visibility_matrix,
             coverage_ratio |-> [n |-> 0, d |-> 1],
             satellite_coverage_counts |-> <<>>,
             missile_coverage_counts |-> <<>>]

\* simulation progress is in units of 0.01
_extract_environment_states(base_data) ==
    [simulation_progress |-> Get(base_data, "simulation_progress", 0)]

_extract_mission_states(base_data, satellites, missiles) ==
    [active_satellites |-> Len(satellites),
     active_missiles |-> Len(missiles),
     mission_progress |-> Get(base_data, "simulation_progress", 0)]

\* state.update(...) in call order: later blocks overwrite earlier keys
update(d, e) == e @@ d

_extract_state_vector(cfg, base_data) ==
    LET satellites == Get(base_data, "satellites", <<>>)
        missiles == Get(base_data, "missiles", <<>>)
        visibility_data == Get(base_data, "visibility", <<>>)
    IN update(update(update(update(
           _extract_satellite_states(cfg, satellites),
           _extract_missile_states(cfg, missiles)),
           _extract_visibility_states(visibility_data, Len(satellites), Len(missiles))),
           _extract_environment_states(base_data)),
           _extract_mission_states(base_data, satellites, missiles))

\* next_state['mission_progress'] += 0.01 on a shallow copy
_predict_next_state(current_state, action) ==
    IF "mission_progress" \in DOMAIN current_state
    THEN [current_state EXCEPT !.mission_progress = @ + 1]
    ELSE current_state

\* finished: time_manager.is_simulation_finished() or is_collection_finished()
_is_episode_done(finished, base_data) ==
    finished \/ Get(base_data, "missiles", <<>>) = <<>>

(***************************************************************************)
(* Exact fractions for np.mean.                                            *)
(***************************************************************************)
RECURSIVE GCD(_, _)
GCD(a, b) == IF b = 0 THEN a ELSE GCD(b, a % b)

Abs(x) == IF x < 0 THEN -x ELSE x

Frac(n, d) == LET g == GCD(Abs(n), d) IN [n |-> n \div g, d |-> d \div g]

FracAdd(a, b) == Frac(a.n * b.d + b.n * a.d, a.d * b.d)

RECURSIVE FracSum(_)
FracSum(s) == IF s = <<>> THEN [n |-> 0, d |-> 1]
              ELSE FracAdd(Head(s), FracSum(Tail(s)))

FracMean(s) == LET t == FracSum(s) IN Frac(t.n, t.d * Len(s))

(***************************************************************************)
(* RLHFDataCollector (rlhf_data_collector.py).                             *)
(***************************************************************************)
Episode(episode_id, scenario_type, start_time, end_time, data_points, total_reward, success, metadata) ==
    [episode_id |-> episode_id, scenario_type |-> scenario_type,
     start_time |-> start_time, end_time |-> end_time,
     data_points |-> data_points, total_reward |-> total_reward,
     success |-> success, metadata |-> metadata]

\* episode_id = f"episode_{wall clock second}_{scenario_type}"; the wall
\* clock is not modelled, so ids of equal scenario types coincide
start_episode(scenario_type, scenario_params) ==
    LET episode_id == <<"episode", scenario_type>>
    IN /\ heap' = Append(heap,
                     Episode(episode_id, scenario_type, current_simulation_time,
                             NoTime, <<>>, 0, FALSE,
                             [scenario_params |-> scenario_params]))
       /\ current_episode' = Len(heap) + 1
       /\ ret' = [op |-> "start_episode", raised |-> FALSE,
                  episode_id |-> episode_id, open_before |-> current_episode]
       /\ collected' = <<>>
       /\ Count(TRUE)
       /\ UNCHANGED <<config, current_strategy, current_simulation_time, episodes, state_history,
                      action_history, reward_history, validation_history,
                      collection_stats, validator_vars>>

\* the statistics after a data point with this validation result was counted
\* and the histories extended (_update_average_statistics included)
collection_stats_after(stats, validation_result, rewards, validations) ==
    [total_data_points |-> stats.total_data_points + 1,
     valid_data_points |-> stats.valid_data_points
                             + (IF validation_result.is_valid THEN 1 ELSE 0),
     invalid_data_points |-> stats.invalid_data_points
                             + (IF validation_result.is_valid THEN 0 ELSE 1),
     average_reward |-> FracMean([i \in 1..Len(rewards) |-> [n |-> rewards[i], d |-> 1]]),
     average_quality_score |->
         FracMean([i \in 1..Len(validations) |-> validations[i].validation_score])]

\* a collector that keeps the reward out of the episode total
add_data_point_no_reward(episode, data_point) ==
    [episode EXCEPT !.data_points = Append(@, data_point)]

\* a collector that drops the points the validator rejects
add_data_point_if_valid(episode, data_point) ==
    IF data_point.info.validation_result.is_valid
    THEN [episode EXCEPT !.data_points = Append(@, data_point),
                         !.total_reward = @ + data_point.reward]
    ELSE episode

\* self.current_episode.data_points.append(data_point);
\* self.current_episode.total_reward += reward
add_data_point(episode, data_point) ==
    [episode EXCEPT !.data_points = Append(@, data_point),
                    !.total_reward = @ + data_point.reward]

\* source: what base_collector.collect_data_at_time(current_time) does:
\*   [kind |-> "raise"], [kind |-> "null"] or [kind |-> "data", base_data |-> ...]
\* executor: what action_executor.execute_action(action) does when it is
\*   called: "raise" or the 'success' flag of its result
\* reward: what reward_calculator.calculate_total_reward returns
\* finished: the time manager's finished flags
collect_rlhf_data_point(action, execute_action, source, executor, reward, finished, nominal) ==
    LET current_time == current_simulation_time
        executes == execute_action /\ config.stk_manager
        raises == source.kind = "raise"
                  \/ (source.kind = "data" /\ executes /\ executor = "raise")
    IN IF raises
       THEN \* except Exception: invalid_data_points += 1; return None
            /\ collection_stats' = [collection_stats EXCEPT
                                       !.invalid_data_points = @ + 1]
            /\ ret' = [op |-> "collect", returned |-> FALSE, raised |-> TRUE,
                       source |-> source.kind]
            /\ Count(nominal)
            /\ UNCHANGED <<config, current_strategy, current_simulation_time, heap, current_episode,
                           episodes, state_history, action_history, reward_history,
                           validation_history, validator_vars, collected>>
       ELSE IF source.kind = "null"
       THEN \* if not base_data: return None
            /\ ret' = [op |-> "collect", returned |-> FALSE, raised |-> FALSE,
                       source |-> source.kind]
            /\ Count(nominal)
            /\ UNCHANGED <<config, current_strategy, current_simulation_time, collector_vars,
                           validator_vars, collected>>
       ELSE \* each intermediate value is bound once, in the order of the code
            \E state \in {_extract_state_vector(config, source.base_data)} :
            \E created \in
                  {RLHFDataPoint(current_time, state, action, reward,
                       _predict_next_state(state, action),
                       _is_episode_done(finished, source.base_data),
                       [base_data |-> source.base_data,
                        action_result |-> IF executes
                                          THEN [success |-> executor = "ok"]
                                          ELSE EmptyDict])} :
            \E validation_result \in
                  {validation_result_of(config, historical_data, created)} :
            LET
                \* data_point.info['validation_result'] = validation_result
                data_point == [created EXCEPT !.info =
                                  [validation_result |-> validation_result] @@ @]
            IN /\ historical_data' = _update_historical_data(historical_data,
                                         created, validation_result)
               /\ validation_stats' = validation_stats_after(validation_stats,
                                         config.anomaly_detection.statistical_outliers,
                                         validation_result)
               /\ heap' = IF current_episode # None
                          THEN [heap EXCEPT ![current_episode] =
                                   add_data_point(@, data_point)]
                          ELSE heap
               /\ state_history' = Append(state_history, state)
               /\ action_history' = Append(action_history, action)
               /\ reward_history' = Append(reward_history, reward)
               /\ validation_history' = Append(validation_history, validation_result)
               /\ collection_stats' = collection_stats_after(collection_stats,
                                         validation_result, reward_history',
                                         validation_history')
               /\ ret' = [op |-> "collect", returned |-> TRUE, raised |-> FALSE,
                          source |-> source.kind, data_point |-> data_point]
               /\ collected' = Append(collected, data_point)
               /\ Count(nominal)
               /\ UNCHANGED <<config, current_strategy, current_simulation_time, current_episode,
                              episodes>>

\* an end_episode that forgets self.current_episode = None
end_episode_keeps_open(success) ==
    IF current_episode = None
    THEN /\ ret' = [op |-> "end_episode", returned |-> FALSE, raised |-> FALSE]
         /\ Count(TRUE)
         /\ UNCHANGED <<config, current_strategy, current_simulation_time, collector_vars,
                        validator_vars, collected>>
    ELSE /\ heap' = [heap EXCEPT ![current_episode] =
                        [@ EXCEPT !.end_time = current_simulation_time,
                                  !.success = success]]
         /\ episodes' = Append(episodes, current_episode)
         /\ ret' = [op |-> "end_episode", returned |-> TRUE, raised |-> FALSE,
                    completed_episode |-> current_episode]
         /\ Count(TRUE)
         /\ UNCHANGED <<config, current_strategy, current_simulation_time, current_episode,
                        state_history, action_history, reward_history,
                        validation_history, collection_stats, validator_vars,
                        collected>>

\* an end_episode without the test for an open episode: None.end_time = ...
\* raises AttributeError
end_episode_unguarded(success) ==
    IF current_episode = None
    THEN /\ ret' = [op |-> "end_episode", returned |-> FALSE, raised |-> TRUE]
         /\ Count(TRUE)
         /\ UNCHANGED <<config, current_strategy, current_simulation_time, collector_vars,
                        validator_vars, collected>>
    ELSE /\ heap' = [heap EXCEPT ![current_episode] =
                        [@ EXCEPT !.end_time = current_simulation_time,
                                  !.success = success]]
         /\ episodes' = Append(episodes, current_episode)
         /\ current_episode' = None
         /\ ret' = [op |-> "end_episode", returned |-> TRUE, raised |-> FALSE,
                    completed_episode |-> current_episode]
         /\ Count(TRUE)
         /\ UNCHANGED <<config, current_strategy, current_simulation_time, state_history,
                        action_history, reward_history, validation_history,
                        collection_stats, validator_vars, collected>>

end_episode(success) ==
    IF current_episode = None
    THEN /\ ret' = [op |-> "end_episode", returned |-> FALSE, raised |-> FALSE]
         /\ Count(TRUE)
         /\ UNCHANGED <<config, current_strategy, current_simulation_time, collector_vars,
                        validator_vars, collected>>
    ELSE /\ heap' = [heap EXCEPT ![current_episode] =
                        [@ EXCEPT !.end_time = current_simulation_time,
                                  !.success = success]]
         /\ episodes' = Append(episodes, current_episode)
         /\ current_episode' = None
         /\ ret' = [op |-> "end_episode", returned |-> TRUE, raised |-> FALSE,
                    completed_episode |-> current_episode]
         /\ Count(TRUE)
         /\ UNCHANGED <<config, current_strategy, current_simulation_time, state_history,
                        action_history, reward_history, validation_history,
                        collection_stats, validator_vars, collected>>

\* time_manager.advance_simulation_time(current + 30 s), done by the driver
advance_simulation_time ==
    /\ current_simulation_time' = current_simulation_time + NormalStep
    /\ UNCHANGED <<config, current_strategy, collector_vars, validator_vars, ret, calls,
                   deviations, collected>>

(***************************************************************************)
(* The collector driven through its public operations.                     *)
(***************************************************************************)
\* 2 satellites, 1 threat, full visibility
Snapshot21 ==
    [satellites |-> <<[satellite_id |-> 1, position |-> [x |-> 7000, y |-> 0, z |-> 0]],
                      [satellite_id |-> 2, position |-> [x |-> 0, y |-> 7000, z |-> 0]]>>,
     missiles |-> <<[missile_id |-> 1, position |-> [x |-> 6500, y |-> 0, z |-> 0],
                     threat_level |-> "medium"]>>,
     visibility |-> <<[satellite_id |-> 1, missile_id |-> 1, has_visibility |-> TRUE],
                      [satellite_id |-> 2, missile_id |-> 1, has_visibility |-> TRUE]>>]

\* no satellites and no threats
SnapshotEmpty == [satellites |-> <<>>, missiles |-> <<>>, visibility |-> <<>>]

NominalCollect ==
    [action |-> NormalAction, execute_action |-> FALSE,
     source |-> [kind |-> "data", base_data |-> Snapshot21],
     executor |-> "ok", reward |-> NormalReward, finished |-> FALSE]

\* a collect call that deviates from the nominal one in one input
CollectDeviations ==
    {[NominalCollect EXCEPT !.source = src]
        : src \in {[kind |-> "null"], [kind |-> "raise"],
                   [kind |-> "data", base_data |-> SnapshotEmpty]}}
    \cup {[NominalCollect EXCEPT !.action = BadAction]}
    \cup {[NominalCollect EXCEPT !.reward = -2]}
    \cup {[NominalCollect EXCEPT !.finished = TRUE]}
    \cup {[NominalCollect EXCEPT !.execute_action = TRUE, !.executor = e]
        : e \in {"ok", "raise"}}

MaxCalls == 4

MaxCollectDeviations == 1

MaxAdvances == 1

StartEpisode ==
    /\ calls < MaxCalls
    /\ start_episode("t1", EmptyDict)
    /\ UNCHANGED system

CollectNominal ==
    /\ calls < MaxCalls
    /\ LET c == NominalCollect
       IN collect_rlhf_data_point(c.action, c.execute_action, c.source,
                                  c.executor, c.reward, c.finished, TRUE)
    /\ UNCHANGED system

CollectDeviating ==
    /\ calls < MaxCalls
    /\ deviations < MaxCollectDeviations
    /\ \E c \in CollectDeviations :
          collect_rlhf_data_point(c.action, c.execute_action, c.source,
                                  c.executor, c.reward, c.finished, FALSE)
    /\ UNCHANGED system

EndEpisode ==
    /\ calls < MaxCalls
    /\ \E success \in BOOLEAN : end_episode(success)
    /\ UNCHANGED system

\* the driver advances the clock after a collect call that returned a point
AdvanceTime ==
    /\ current_simulation_time < StartTime + MaxAdvances * NormalStep
    /\ ret.op = "collect" /\ ret.returned
    /\ advance_simulation_time
    /\ UNCHANGED system

Next == StartEpisode \/ CollectNominal \/ CollectDeviating \/ EndEpisode \/ AdvanceTime

Spec == Init /\ [][Next]_vars


(***************************************************************************)
(* The validator over a long run: a fresh validator is fed one point every *)
(* NormalStep seconds until its history is full, every NthMalformed-th of  *)
(* them with a malformed action, and then a few more points of either kind.*)
(***************************************************************************)
NthMalformed == 7

MaxOverflow == 3

\* the k-th point of the long run
LongRunPoint(k, action) ==
    RLHFDataPoint(StartTime + k * NormalStep, NormalState, action,
                  NormalReward, EmptyDict, FALSE, EmptyDict)

ValidateFilling ==
    /\ validation_stats.total_validations < max_history_size
    /\ LET k == validation_stats.total_validations + 1
           malformed == k % NthMalformed = 0
       IN validate_rlhf_data_point(
              LongRunPoint(k, IF malformed THEN BadAction ELSE NormalAction),
              ~malformed)
    /\ UNCHANGED system

ValidateOverflowing ==
    /\ validation_stats.total_validations >= max_history_size
    /\ validation_stats.total_validations < max_history_size + MaxOverflow
    /\ \E malformed \in BOOLEAN :
          validate_rlhf_data_point(
              LongRunPoint(validation_stats.total_validations + 1,
                           IF malformed THEN BadAction ELSE NormalAction),
              ~malformed)
    /\ UNCHANGED system

NextHist == ValidateFilling \/ ValidateOverflowing

SpecHist == Init /\ [][NextHist]_vars


(***************************************************************************)
(* Properties of the episode manager, checked under Spec.                  *)
(***************************************************************************)
\* C1: a start_episode call made while an episode is open is surfaced to the
\* caller as an error, and the episode that was open stays the open episode
\* with its data points and total_reward.
C1_DoubleStartIsRejected ==
    [][(ret'.op = "start_episode" /\ calls' = calls + 1 /\ current_episode # None)
          => /\ ret'.raised
             /\ current_episode' = current_episode
             /\ heap'[current_episode] = heap[current_episode]]_vars

\* C2: end_episode on an open episode appends that episode exactly once, at
\* the end of the completed episodes, and leaves no episode open; no call
\* reorders the completed episodes or changes the data points or the
\* total_reward of one of them.
C2_CompletedEpisodesAreFrozen ==
    [][/\ (ret'.op = "end_episode" /\ calls' = calls + 1 /\ current_episode # None)
             => /\ ret'.returned
                /\ ret'.completed_episode = current_episode
                /\ current_episode \notin Range(episodes)
                /\ episodes' = Append(episodes, current_episode)
                /\ current_episode' = None
       /\ \A i \in 1..Len(episodes) :
             /\ i <= Len(episodes')
             /\ episodes'[i] = episodes[i]
             /\ heap'[episodes[i]].data_points = heap[episodes[i]].data_points
             /\ heap'[episodes[i]].total_reward = heap[episodes[i]].total_reward]_vars

\* a collect call returned a point after an episode holding a point was ended
C2_Witness ==
    /\ ret.op = "collect" /\ ret.returned
    /\ episodes # <<>>
    /\ heap[episodes[1]].data_points # <<>>

\* C3: the open episode holds exactly the data points the collect calls have
\* returned since its start_episode, in call order, and its total_reward is
\* the sum of their rewards; so does the episode end_episode returns.
C3_EpisodeHoldsCollectedPoints ==
    /\ current_episode # None =>
          /\ heap[current_episode].data_points = collected
          /\ heap[current_episode].total_reward
                = SumSeq([i \in 1..Len(collected) |-> collected[i].reward])
    /\ (ret.op = "end_episode" /\ ret.returned) =>
          /\ heap[ret.completed_episode].data_points = collected
          /\ heap[ret.completed_episode].total_reward
                = SumSeq([i \in 1..Len(collected) |-> collected[i].reward])

\* end_episode returned an episode of two points with different rewards
C3_Witness ==
    /\ ret.op = "end_episode" /\ ret.returned
    /\ Len(collected) = 2
    /\ collected[1].reward # collected[2].reward

\* C4: a collect call whose point the validator rejects returns the point
\* with the rejecting validation result in its info, counts it in
\* total_data_points, and appends it to the open episode, adding its reward
\* to the episode's total.
C4_InvalidPointIsKept ==
    [][(/\ ret'.op = "collect" /\ calls' = calls + 1
        /\ validation_stats'.failed_validations
              = validation_stats.failed_validations + 1)
          => /\ ret'.returned
             /\ ~ret'.data_point.info.validation_result.is_valid
             /\ ret'.data_point.info.validation_result
                   = validation_history'[Len(validation_history')]
             /\ collection_stats'.total_data_points
                   = collection_stats.total_data_points + 1
             /\ current_episode # None =>
                   /\ heap'[current_episode].data_points
                         = Append(heap[current_episode].data_points, ret'.data_point)
                   /\ heap'[current_episode].total_reward
                         = heap[current_episode].total_reward + ret'.data_point.reward]_vars

\* a rejected point is the last point of the open episode
C4_Witness ==
    /\ ret.op = "collect" /\ ret.returned
    /\ ~ret.data_point.info.validation_result.is_valid
    /\ current_episode # None
    /\ heap[current_episode].data_points # <<>>
    /\ heap[current_episode].data_points[Len(heap[current_episode].data_points)]
          = ret.data_point

\* C5: a collect call whose snapshot source returns null or fails returns
\* None and leaves the open episode, the collection statistics, the
\* collector's histories and the validator's history as they were.
C5_FailedSnapshotChangesNothing ==
    [][(/\ ret'.op = "collect" /\ calls' = calls + 1
        /\ ret'.source \in {"null", "raise"})
          => /\ ~ret'.returned
             /\ UNCHANGED <<collector_vars, validator_vars>>]_vars

\* the cap a ring buffer would have; the code names none
HistoryCap == 3

\* C6: the lengths of the collector's state, action and reward histories
\* never exceed a fixed cap.
C6_CollectorHistoriesAreCapped ==
    /\ Len(state_history) <= HistoryCap
    /\ Len(action_history) <= HistoryCap
    /\ Len(reward_history) <= HistoryCap


(***************************************************************************)
(* Properties of the validator's history, checked under SpecHist.          *)
(***************************************************************************)
\* C7: every validate call, of a valid or an invalid point, appends exactly
\* one record, that of the validated point, to the validator's history; the
\* history never holds more than max_history_size records, and a call made
\* on a full history evicts the oldest record and no other, so the history
\* is the most recent validated points in validation order.
C7_HistoryIsTheMostRecentPoints ==
    [][(ret'.op = "validate" /\ calls' = calls + 1)
          => LET record == [timestamp |-> ret'.data_point.timestamp,
                            reward |-> ret'.data_point.reward,
                            state |-> ret'.data_point.state,
                            validation_score |-> ret'.result.validation_score]
             IN /\ Len(historical_data') <= 1000
                /\ historical_data' =
                      IF Len(historical_data) < 1000
                      THEN Append(historical_data, record)
                      ELSE Append(Tail(historical_data), record)]_vars

\* an invalid point was validated on a full history: the history starts at
\* the third point of the run
C7_Witness ==
    /\ ret.op = "validate" /\ ~ret.result.is_valid
    /\ validation_stats.total_validations = 1002
    /\ Len(historical_data) = 1000
    /\ historical_data[1].timestamp = StartTime + 3 * NormalStep

(***************************************************************************)
(* Properties of validate_rlhf_data_point, checked under SpecV.            *)
(***************************************************************************)
\* C8: with anomaly detection enabled, a validate call made while the
\* history holds fewer than 10 points returns no anomalies, whatever the
\* point; the 11th point of a fresh validator is the first that can have any.
C8_NoAnomaliesOnShortHistory ==
    [][(/\ ret'.op = "validate" /\ calls' = calls + 1
        /\ config.anomaly_detection.statistical_outliers
        /\ Len(historical_data) < 10)
          => ret'.result.anomalies = <<>>]_vars

\* the 10th point has a reward far from the nine equal rewards before it and
\* no anomaly is reported
C8_Witness ==
    /\ ret.op = "validate"
    /\ config.anomaly_detection.statistical_outliers
    /\ validation_stats.total_validations = 10
    /\ ret.data_point.reward = 400
    /\ ret.result.anomalies = <<>>

\* C9: a data point whose state is the empty mapping is flagged
\* is_valid = false and its errors hold at least one missing-field error of
\* the completeness check.
C9_EmptyStateIsIncomplete ==
    (ret.op = "validate" /\ ret.data_point.state = EmptyDict)
       => /\ ~ret.result.is_valid
          /\ \E i \in 1..Len(ret.result.errors) :
                ret.result.errors[i]
                   \in Range(ret.result.quality_metrics.completeness.missing_fields)

\* C10: every call runs the completeness, format, physics and temporal
\* checks, and is_valid is false exactly when the completeness check finds
\* the point incomplete or the format check finds a violation; warnings and
\* anomalies do not enter it.
C10_OnlyCompletenessAndFormatAreFatal ==
    ret.op = "validate"
       => /\ {"completeness", "format", "physics", "temporal"}
                \subseteq DOMAIN ret.result.quality_metrics
          /\ ret.result.is_valid
                <=> (/\ ret.result.quality_metrics.completeness.is_complete
                     /\ ret.result.quality_metrics.format.format_errors = <<>>)

\* a valid point with a physics warning, a temporal warning and an anomaly
C10_Witness ==
    /\ ret.op = "validate"
    /\ ret.result.is_valid
    /\ ~ret.result.quality_metrics.physics.is_valid
    /\ ~ret.result.quality_metrics.temporal.is_consistent
    /\ ret.result.warnings # <<>>
    /\ ret.result.anomalies # <<>>


\* C11: the validation score of every result is
\* max(0, (1.0 - 0.3*|errors| - 0.1*|warnings| - 0.05*|anomalies|)
\*        * completeness_score), and lies in [0, 1].
C11_ScoreFormula ==
    ret.op = "validate"
       => LET result == ret.result
              score == result.validation_score
              c == result.quality_metrics.completeness.completeness_score
              \* the product, in hundredths
              num == (100 - 30 * Len(result.errors) - 10 * Len(result.warnings)
                          - 5 * Len(result.anomalies)) * c.n
              den == 100 * c.d
          IN /\ score.d > 0 /\ den > 0
             /\ 0 <= score.n /\ score.n <= score.d
             /\ IF num <= 0 THEN score.n = 0
                ELSE score.n * den = num * score.d

\* the result of an incomplete point with errors, scored strictly between
\* 0 and 1
C11_Witness ==
    /\ ret.op = "validate"
    /\ ret.result.errors # <<>>
    /\ ret.result.quality_metrics.completeness.completeness_score.n
          < ret.result.quality_metrics.completeness.completeness_score.d
    /\ 0 < ret.result.validation_score.n
    /\ ret.result.validation_score.n < ret.result.validation_score.d

\* C12: end_episode called while no episode is open does not raise, returns
\* None and leaves the completed episodes, the absent open episode, the
\* histories and all statistics as they were.
C12_EndWithoutOpenEpisode ==
    [][(ret'.op = "end_episode" /\ calls' = calls + 1 /\ current_episode = None)
          => /\ ~ret'.raised
             /\ ~ret'.returned
             /\ UNCHANGED <<collector_vars, validator_vars>>]_vars

\* end_episode returned None right after an episode with a point was ended
C12_Witness ==
    /\ ret.op = "end_episode" /\ ~ret.returned
    /\ current_episode = None
    /\ episodes # <<>>
    /\ heap[episodes[1]].data_points # <<>>


(***************************************************************************)
(* RLHFExpertPolicy (expert_policy.py).  Satellite and missile ids are     *)
(* positive integers, 0 the empty id ''; power is in hundredths;           *)
(* generation_time (the wall clock) is left out of strategy_info.          *)
(***************************************************************************)
\* strategy_type = None: the argument is not given ('' counts as not given
\* for Python's "strategy_type or self.current_strategy")
NoStrategy == ""

\* the keys of self.strategy_types
strategy_types == {"optimal_tracking", "resource_efficient", "robust_defense", "balanced"}

coordination_threshold == 3

\* x.get(...) raises AttributeError on an entry that is no dict
AllDicts(entries) == \A k \in 1..Len(entries) : IsDict(entries[k])

\* visibility_map.get(sat_id, [])
visible_from(visibility_map, sat_id) ==
    IF sat_id \in DOMAIN visibility_map THEN visibility_map[sat_id] ELSE <<>>

_build_visibility_map(visibility_data) ==
    LET visible == SelectSeq(visibility_data,
                       LAMBDA vis : Get(vis, "has_visibility", FALSE))
        sat_ids == {Get(visible[k], "satellite_id", 0) : k \in 1..Len(visible)}
    IN [sat_id \in sat_ids |->
          LET mine == SelectSeq(visible,
                          LAMBDA vis : Get(vis, "satellite_id", 0) = sat_id)
          IN [k \in 1..Len(mine) |-> Get(mine[k], "missile_id", 0)]]

\* "simplified version: return the default priority"
_get_missile_priority(missile, state) == 2

\* sorted(missiles, key=threat_score, reverse=True): stable, descending
RECURSIVE insert_by_threat(_, _, _)
insert_by_threat(sorted, missile, state) ==
    IF sorted = <<>> THEN <<missile>>
    ELSE IF _get_missile_priority(Head(sorted), state)
               >= _get_missile_priority(missile, state)
         THEN <<Head(sorted)>> \o insert_by_threat(Tail(sorted), missile, state)
         ELSE <<missile>> \o sorted

RECURSIVE _sort_missiles_by_threat(_, _)
_sort_missiles_by_threat(missiles, state) ==
    IF missiles = <<>> THEN <<>>
    ELSE insert_by_threat(
             _sort_missiles_by_threat(SubSeq(missiles, 1, Len(missiles) - 1), state),
             missiles[Len(missiles)], state)

_get_default_action ==
    [satellite_actions |-> EmptyDict,
     mission_actions |-> [target_assignments |-> <<>>,
                          resource_allocation |-> EmptyDict,
                          coordination_commands |-> EmptyDict],
     strategy_info |-> [strategy_type |-> "default",
                        confidence |-> [n |-> 1, d |-> 10]]]

\* the action a strategy starts from
empty_action ==
    [satellite_actions |-> EmptyDict,
     mission_actions |-> [target_assignments |-> <<>>,
                          resource_allocation |-> EmptyDict,
                          coordination_commands |-> EmptyDict]]

\* a greedy loop that forgets which missiles are assigned
assigned_ids_forgotten(assignments) == {}

\* ids of the missiles in assignments (assigned_missiles)
assigned_ids(assignments) == {assignments[k].target_id : k \in 1..Len(assignments)}

\* the loop "for sat in satellites" of the optimal-tracking and the balanced
\* strategy from satellite i on: one assignment for each satellite that
\* sees a missile not yet assigned, the first in sorted order
RECURSIVE assign_visible(_, _, _, _, _, _, _)
assign_visible(satellites, sorted_missiles, visibility_map, state, duration, assignments, i) ==
    IF i > Len(satellites) THEN assignments
    ELSE LET sat_id == Get(satellites[i], "satellite_id", 0)
             visible_missiles ==
                 SelectSeq(sorted_missiles, LAMBDA missile :
                     /\ Get(missile, "missile_id", 0)
                           \in Range(visible_from(visibility_map, sat_id))
                     /\ Get(missile, "missile_id", 0) \notin assigned_ids(assignments))
         IN IF visible_missiles # <<>>
            THEN assign_visible(satellites, sorted_missiles, visibility_map, state, duration,
                     Append(assignments,
                         [satellite_id |-> sat_id,
                          target_id |-> Get(visible_missiles[1], "missile_id", 0),
                          priority |-> _get_missile_priority(visible_missiles[1], state),
                          assignment_duration |-> duration]),
                     i + 1)
            ELSE assign_visible(satellites, sorted_missiles, visibility_map, state, duration,
                     assignments, i + 1)

\* action['satellite_actions'][sat_id] = ... for each assignment in order
\* (a later assignment of the same satellite overwrites)
satellite_actions_of(assignments, sat_actions) ==
    [sat_id \in {assignments[k].satellite_id : k \in 1..Len(assignments)} |->
        LET last == CHOOSE k \in 1..Len(assignments) :
                        /\ assignments[k].satellite_id = sat_id
                        /\ \A m \in 1..Len(assignments) :
                              assignments[m].satellite_id = sat_id => m <= k
        IN sat_actions[last]]

satellite_action(target_coordinates, scan_pattern, payload, communication, attitude_control) ==
    [payload_pointing |-> [target_coordinates |-> target_coordinates,
                           pointing_mode |-> "tracking",
                           scan_pattern |-> scan_pattern],
     power_management |-> [power_allocation |->
         [payload |-> payload, communication |-> communication,
          attitude_control |-> attitude_control]]]


\* dict.values() of a position
values(position) ==
    IF position = EmptyDict THEN <<>>
    ELSE <<position.x, position.y, position.z>>

\* the missile of base_data a target id names (the first with that id)
missile_of(missiles, missile_id) ==
    missiles[CHOOSE k \in 1..Len(missiles) :
                /\ Get(missiles[k], "missile_id", 0) = missile_id
                /\ \A m \in 1..(k - 1) : Get(missiles[m], "missile_id", 0) # missile_id]

_optimal_tracking_strategy(state, base_data) ==
    LET satellites == Get(base_data, "satellites", <<>>)
        missiles == Get(base_data, "missiles", <<>>)
        visibility_data == Get(base_data, "visibility", <<>>)
    IN IF ~(AllDicts(visibility_data) /\ AllDicts(missiles) /\ AllDicts(satellites))
       THEN _get_default_action
       ELSE LET visibility_map == _build_visibility_map(visibility_data)
                sorted_missiles == _sort_missiles_by_threat(missiles, state)
                assignments == assign_visible(satellites, sorted_missiles,
                                   visibility_map, state, 300, <<>>, 1)
                sat_action(assignment) ==
                    satellite_action(
                        values(Get(missile_of(missiles, assignment.target_id),
                                   "position", EmptyDict)),
                        "none", 80, 15, 5)
            IN [empty_action EXCEPT
                   !.mission_actions.target_assignments = assignments,
                   !.satellite_actions = satellite_actions_of(assignments,
                           [k \in 1..Len(assignments) |-> sat_action(assignments[k])])]

\* the loop of _find_minimal_coverage from satellite i on; assignments is
\* the dict as a list of (sat_id, missile_id) in insertion order
RECURSIVE cover(_, _, _, _)
cover(satellites, visibility_map, assignments, i) ==
    IF i > Len(satellites) THEN assignments
    ELSE LET sat_id == Get(satellites[i], "satellite_id", 0)
             covered_missiles == {assignments[k][2] : k \in 1..Len(assignments)}
             uncovered_visible == SelectSeq(visible_from(visibility_map, sat_id),
                                      LAMBDA m : m \notin covered_missiles)
         IN IF uncovered_visible # <<>>
            THEN LET others == SelectSeq(assignments, LAMBDA a : a[1] # sat_id)
                     kept == \E k \in 1..Len(assignments) : assignments[k][1] = sat_id
                 IN \* assignments[sat_id] = target: a key already there keeps
                    \* its place in the dict
                    cover(satellites, visibility_map,
                          IF kept
                          THEN [k \in 1..Len(assignments) |->
                                   IF assignments[k][1] = sat_id
                                   THEN <<sat_id, uncovered_visible[1]>>
                                   ELSE assignments[k]]
                          ELSE Append(assignments, <<sat_id, uncovered_visible[1]>>),
                          i + 1)
            ELSE cover(satellites, visibility_map, assignments, i + 1)

_find_minimal_coverage(satellites, missiles, visibility_map) ==
    cover(satellites, visibility_map, <<>>, 1)

_resource_efficient_strategy(state, base_data) ==
    LET satellites == Get(base_data, "satellites", <<>>)
        missiles == Get(base_data, "missiles", <<>>)
        visibility_data == Get(base_data, "visibility", <<>>)
    IN IF ~(AllDicts(visibility_data) /\ AllDicts(satellites))
       THEN _get_default_action
       ELSE LET visibility_map == _build_visibility_map(visibility_data)
                optimal_assignments ==
                    _find_minimal_coverage(satellites, missiles, visibility_map)
                assignments ==
                    [k \in 1..Len(optimal_assignments) |->
                        [satellite_id |-> optimal_assignments[k][1],
                         target_id |-> optimal_assignments[k][2],
                         priority |-> 1,
                         assignment_duration |-> 600]]
                sat_action(assignment) ==
                    satellite_action(<<0, 0, 0>>, "none", 50, 30, 20)
            IN [empty_action EXCEPT
                   !.mission_actions.target_assignments = assignments,
                   !.satellite_actions = satellite_actions_of(assignments,
                           [k \in 1..Len(assignments) |-> sat_action(assignments[k])])]

\* the assignments of the high-threat missiles from missile j on: the first
\* two satellites that see the missile
RECURSIVE track_high_threat(_, _, _, _, _)
track_high_threat(high_threat_missiles, satellites, visibility_data, assignments, j) ==
    IF j > Len(high_threat_missiles) THEN assignments
    ELSE LET missile_id == Get(high_threat_missiles[j], "missile_id", 0)
             capable_satellites ==
                 SelectSeq(satellites, LAMBDA sat :
                     missile_id \in Range(visible_from(
                         _build_visibility_map(visibility_data),
                         Get(sat, "satellite_id", 0))))
             chosen == SubSeq(capable_satellites, 1, Min(2, Len(capable_satellites)))
         IN track_high_threat(high_threat_missiles, satellites, visibility_data,
                assignments \o
                [k \in 1..Len(chosen) |->
                    [satellite_id |-> Get(chosen[k], "satellite_id", 0),
                     target_id |-> missile_id,
                     priority |-> 4,
                     assignment_duration |-> 180]],
                j + 1)

_robust_defense_strategy(state, base_data) ==
    LET satellites == Get(base_data, "satellites", <<>>)
        missiles == Get(base_data, "missiles", <<>>)
        visibility_data == Get(base_data, "visibility", <<>>)
    IN IF ~AllDicts(missiles)
       THEN _get_default_action
       ELSE LET high_threat_missiles ==
                    SelectSeq(missiles, LAMBDA m : _get_missile_priority(m, state) >= 3)
            IN IF high_threat_missiles # <<>>
                  /\ satellites # <<>>
                  /\ ~(AllDicts(satellites) /\ AllDicts(visibility_data))
               THEN _get_default_action
               ELSE LET assignments == track_high_threat(high_threat_missiles,
                                           satellites, visibility_data, <<>>, 1)
                        sat_action(assignment) ==
                            satellite_action(<<0, 0, 0>>, "adaptive", 70, 20, 10)
                        coordination_commands ==
                            IF Len(high_threat_missiles) >= coordination_threshold
                            THEN [collaborative_tracking |-> TRUE,
                                  handover_instructions |-> <<>>,
                                  formation_adjustment |-> [mode |-> "defensive"]]
                            ELSE EmptyDict
                    IN [empty_action EXCEPT
                           !.mission_actions.target_assignments = assignments,
                           !.mission_actions.coordination_commands = coordination_commands,
                           !.satellite_actions =
                               satellite_actions_of(assignments,
                           [k \in 1..Len(assignments) |-> sat_action(assignments[k])])]

_balanced_strategy(state, base_data) ==
    LET satellites == Get(base_data, "satellites", <<>>)
        missiles == Get(base_data, "missiles", <<>>)
        visibility_data == Get(base_data, "visibility", <<>>)
    IN IF ~(AllDicts(visibility_data) /\ AllDicts(missiles) /\ AllDicts(satellites))
       THEN _get_default_action
       ELSE LET visibility_map == _build_visibility_map(visibility_data)
                sorted_missiles == _sort_missiles_by_threat(missiles, state)
                assignments == assign_visible(satellites, sorted_missiles,
                                   visibility_map, state, 300, <<>>, 1)
                sat_action(assignment) ==
                    IF assignment.priority >= 3
                    THEN satellite_action(<<0, 0, 0>>, "none", 70, 20, 10)
                    ELSE satellite_action(<<0, 0, 0>>, "none", 50, 30, 20)
            IN [empty_action EXCEPT
                   !.mission_actions.target_assignments = assignments,
                   !.satellite_actions = satellite_actions_of(assignments,
                           [k \in 1..Len(assignments) |-> sat_action(assignments[k])])]


\* min(1.0, f) of a fraction
FracMin1(f) == IF f.n >= f.d THEN [n |-> 1, d |-> 1] ELSE f

FracMul(a, b) == Frac(a.n * b.n, a.d * b.d)

\* the factors are exact here: the power sums of the strategies are 1.0 or
\* 0.9999999999999999 as floats, both inside [0.5, 1.0]
_calculate_action_confidence(action, state, base_data) ==
    LET assignments == action.mission_actions.target_assignments
        total_missiles == Len(Get(base_data, "missiles", <<>>))
        coverage_factor ==
            IF total_missiles > 0
            \* min(1.0, coverage_ratio + 0.5)
            THEN FracMin1(Frac(2 * Len(assignments) + total_missiles, 2 * total_missiles))
            ELSE [n |-> 1, d |-> 1]
        satellite_actions == action.satellite_actions
        sat_ids == DOMAIN satellite_actions
        total_power(sat_id) ==
            LET power_allocation == satellite_actions[sat_id].power_management.power_allocation
            IN power_allocation.payload + power_allocation.communication
                  + power_allocation.attitude_control
        \* 0.5 <= np.mean(power_allocations) <= 1.0, in hundredths
        power_in_range ==
            LET ids == [k \in 1..Cardinality(sat_ids) |->
                           CHOOSE id \in sat_ids :
                               Cardinality({x \in sat_ids : x < id}) = k - 1]
                sum == SumSeq([k \in 1..Len(ids) |-> total_power(ids[k])])
            IN 50 * Len(ids) <= sum /\ sum <= 100 * Len(ids)
        power_factor ==
            IF sat_ids # {} /\ ~power_in_range
            THEN [n |-> 8, d |-> 10] ELSE [n |-> 1, d |-> 1]
    IN FracMin1(FracMul(coverage_factor, power_factor))

\* self.strategy_types[strategy](state, base_data)
run_strategy(strategy, state, base_data) ==
    CASE strategy = "optimal_tracking" -> _optimal_tracking_strategy(state, base_data)
      [] strategy = "resource_efficient" -> _resource_efficient_strategy(state, base_data)
      [] strategy = "robust_defense" -> _robust_defense_strategy(state, base_data)
      [] strategy = "balanced" -> _balanced_strategy(state, base_data)

\* a selection that falls back to the current strategy
select_strategy_current(strategy_type, current) ==
    LET strategy == IF strategy_type # NoStrategy THEN strategy_type ELSE current
    IN IF strategy \notin strategy_types THEN current ELSE strategy

\* the strategy get_expert_action runs for a requested name
select_strategy(strategy_type, current) ==
    LET strategy == IF strategy_type # NoStrategy THEN strategy_type ELSE current
    IN IF strategy \notin strategy_types THEN "balanced" ELSE strategy

\* the strategies catch their own exceptions and _calculate_action_confidence
\* catches its own, so the except branch of get_expert_action is not taken
get_expert_action(state, base_data, strategy_type) ==
    LET strategy == select_strategy(strategy_type, current_strategy)
        action == run_strategy(strategy, state, base_data)
    IN [satellite_actions |-> action.satellite_actions,
        mission_actions |-> action.mission_actions,
        \* action['strategy_info'] = {...}: replaces the entry of a default action
        strategy_info |->
            [strategy_type |-> strategy,
             confidence |-> _calculate_action_confidence(action, state, base_data)]]

set_strategy_type(strategy_type) ==
    /\ current_strategy' = IF strategy_type \in strategy_types
                           THEN strategy_type ELSE current_strategy
    /\ ret' = [op |-> "set_strategy_type", strategy_type |-> strategy_type]
    /\ UNCHANGED <<config, current_simulation_time, collector_vars, validator_vars,
                   calls, deviations, collected>>

(***************************************************************************)
(* The policy driven with snapshots of up to MaxSatellites satellites, the  *)
(* missiles of MissileIds and every visibility relation between their ids. *)
(***************************************************************************)
MaxSatellites == 2

MissileIds == {1, 2}

\* the (satellite, missile) id pairs in the order a snapshot lists them
IdPairs ==
    LET nm == Cardinality(MissileIds)
    IN [k \in 1..(MaxSatellites * nm) |-> <<((k - 1) \div nm) + 1, ((k - 1) % nm) + 1>>]

\* pairs out of sight are left out or listed with has_visibility False
visibility_of(pairs, list_invisible) ==
    LET listed == SelectSeq(IdPairs, LAMBDA p : list_invisible \/ p \in pairs)
    IN [k \in 1..Len(listed) |->
          [satellite_id |-> listed[k][1], missile_id |-> listed[k][2],
           has_visibility |-> listed[k] \in pairs]]

PolicySnapshots ==
    {[satellites |-> [i \in 1..ns |-> [satellite_id |-> i]],
      missiles |-> [j \in 1..nm |-> [missile_id |-> j]],
      visibility |-> visibility_of(pairs, list_invisible)]
        : ns \in 0..MaxSatellites, nm \in 0..Cardinality(MissileIds),
          pairs \in SUBSET Range(IdPairs), list_invisible \in BOOLEAN}

\* snapshots with an entry that is no dict
MalformedSnapshots ==
    {[satellites |-> <<NotADict>>, missiles |-> <<[missile_id |-> 1]>>,
      visibility |-> visibility_of({<<1, 1>>}, FALSE)],
     [satellites |-> <<[satellite_id |-> 1]>>, missiles |-> <<NotADict>>,
      visibility |-> visibility_of({<<1, 1>>}, FALSE)],
     [satellites |-> <<NotADict>>, missiles |-> <<>>, visibility |-> <<>>]}

\* the names a caller passes: none, the known ones and an unknown one
RequestedStrategies == {NoStrategy, "aggressive"} \cup strategy_types

\* the policy keeps nothing between calls but current_strategy, so one call is
\* made in a behaviour, after any number of set_strategy_type calls
\* a state whose missiles are encoded as high (3) and critical (4) threats
HighThreatState == [missile_threat_levels |-> <<3, 4>>] @@ NormalState

GetExpertAction ==
    /\ calls = 0
    /\ calls' = calls + 1
    /\ \E state \in {NormalState, HighThreatState} :
       \E base_data \in PolicySnapshots \cup MalformedSnapshots :
       \E strategy_type \in RequestedStrategies :
          /\ ret' = [op |-> "get_expert_action", raised |-> FALSE,
                     state |-> state, base_data |-> base_data,
                     strategy_type |-> strategy_type,
                     action |-> get_expert_action(state, base_data, strategy_type)]
          /\ UNCHANGED <<config, current_strategy, current_simulation_time,
                         collector_vars, validator_vars, deviations, collected>>
    /\ UNCHANGED system

SetStrategyType ==
    /\ \E strategy_type \in RequestedStrategies \ {NoStrategy} :
       set_strategy_type(strategy_type)
    /\ UNCHANGED system

NextPolicy == GetExpertAction \/ SetStrategyType

\* the policy reads nothing of the collector's configuration
InitPolicy == Init /\ config = ConfigBare

SpecPolicy == InitPolicy /\ [][NextPolicy]_vars


(***************************************************************************)
(* Claims about the expert policy.                                         *)
(***************************************************************************)

\* C13: get_expert_action called with a strategy name that is none of the
\* four known ones does not fail, returns the satellite actions and the target
\* assignments the balanced strategy gives for the same state and snapshot,
\* and reports the strategy type balanced, whatever the current strategy is.
C13_UnknownNameFallsBackToBalanced ==
    (ret.op = "get_expert_action" /\ ret.strategy_type \notin strategy_types
        /\ ret.strategy_type # NoStrategy)
       => LET balanced == _balanced_strategy(ret.state, ret.base_data)
          IN /\ ~ret.raised
             /\ ret.action.satellite_actions = balanced.satellite_actions
             /\ ret.action.mission_actions.target_assignments
                   = balanced.mission_actions.target_assignments
             /\ ret.action.strategy_info.strategy_type = "balanced"

C13_Witness ==
    /\ ret.op = "get_expert_action"
    /\ ret.strategy_type = "aggressive"
    /\ current_strategy = "resource_efficient"
    /\ Len(ret.action.mission_actions.target_assignments) = 2
    /\ ret.action.mission_actions.target_assignments
          # _resource_efficient_strategy(ret.state, ret.base_data)
               .mission_actions.target_assignments

\* C14: whenever the strategy that get_expert_action runs fails internally
\* (its except branch returns the default action), get_expert_action raises
\* nothing and returns an action without satellite actions and without target
\* assignments whose strategy_info confidence is 0.1.
C14_FailureGivesDefaultAction ==
    (/\ ret.op = "get_expert_action"
     /\ run_strategy(ret.action.strategy_info.strategy_type, ret.state, ret.base_data)
           = _get_default_action)
       => /\ ~ret.raised
          /\ ret.action.satellite_actions = EmptyDict
          /\ ret.action.mission_actions.target_assignments = <<>>
          /\ ret.action.strategy_info.confidence = [n |-> 1, d |-> 10]

ExtractStateVector ==
    /\ \E base_data \in PolicySnapshots :
       /\ calls = 0
       /\ calls' = calls + 1
       /\ ret' = [op |-> "_extract_state_vector", base_data |-> base_data,
                  state |-> _extract_state_vector(config, base_data)]
       /\ UNCHANGED <<config, current_strategy, current_simulation_time,
                      collector_vars, validator_vars, deviations, collected>>
    /\ UNCHANGED system

NextExtract == ExtractStateVector

SpecExtract == Init /\ [][NextExtract]_vars

\* the state fields a state_space flag of the configuration switches
satellite_fields == DOMAIN _get_empty_satellite_state

missile_fields == DOMAIN _get_empty_missile_state

\* self.state_space_config.get(group, {}).get(flag, False) of the flag that
\* guards a field; the flags other than position are in no configuration
field_enabled(cfg, field) ==
    CASE field = "satellite_positions" -> cfg.state_space.satellite_position
      [] field = "missile_positions" -> cfg.state_space.missile_position
      [] OTHER -> FALSE

\* C16: in the state that extraction returns, a field that a flag of the
\* configuration switches is present exactly when its flag is enabled, for every
\* snapshot, empty or not, so that the field names depend on the configuration
\* only.
C16_FieldsFollowConfiguration ==
    ret.op = "_extract_state_vector"
       => \A field \in satellite_fields \cup missile_fields :
             field \in DOMAIN ret.state <=> field_enabled(config, field)

difficulty_levels == <<"easy", "medium", "hard", "extreme">>

scenario_types == <<"single_threat", "multiple_threats", "saturation_attack", "evasive_targets">>

\* the keys of self.scenario_templates
scenario_templates == {"single_threat", "multiple_threats", "saturation_attack", "evasive_targets", "communication_failure", "sensor_degradation"}

\* scenario_id is the number formatted into eval_scenario_NNNN
_generate_single_scenario(scenario_id, scenario_type, difficulty_level) ==
    [scenario_id |-> scenario_id,
     scenario_type |-> scenario_type,
     difficulty_level |-> difficulty_level]

\* max(1, num_scenarios // (len(difficulty_levels) * len(scenario_types)))
scenarios_per_combination(num_scenarios) ==
    Max(1, num_scenarios \div (Len(difficulty_levels) * Len(scenario_types)))

\* the three nested loops run to their end: each difficulty in turn, each type
\* in turn, scenarios_per_combination scenarios of each
all_combinations(num_scenarios) ==
    LET per == scenarios_per_combination(num_scenarios)
        types == Len(scenario_types)
    IN [k \in 1..(Len(difficulty_levels) * types * per) |->
          _generate_single_scenario(k,
              scenario_types[(((k - 1) \div per) % types) + 1],
              difficulty_levels[((k - 1) \div (per * types)) + 1])]

\* every loop level breaks as soon as len(scenarios) >= num_scenarios
generate_evaluation_scenarios(num_scenarios) ==
    LET full == all_combinations(num_scenarios)
    IN SubSeq(full, 1, Min(num_scenarios, Len(full)))

MaxScenarios == 40

GenerateEvaluationScenarios ==
    /\ \E num_scenarios \in 0..MaxScenarios :
       /\ ret' = [op |-> "generate_evaluation_scenarios",
                  num_scenarios |-> num_scenarios,
                  scenarios |-> generate_evaluation_scenarios(num_scenarios)]
       /\ UNCHANGED <<config, current_strategy, current_simulation_time,
                      collector_vars, validator_vars, calls, deviations, collected>>
    /\ UNCHANGED system

NextScenario == GenerateEvaluationScenarios

SpecScenario == Init /\ [][NextScenario]_vars

\* C18: for every requested size of at least 1, the list that
\* generate_evaluation_scenarios returns holds every combination of a
\* difficulty level and a scenario type at least once.
C18_EveryCombinationAppears ==
    (ret.op = "generate_evaluation_scenarios" /\ ret.num_scenarios >= 1)
       => \A d \in Range(difficulty_levels), t \in Range(scenario_types) :
             \E k \in 1..Len(ret.scenarios) :
                /\ ret.scenarios[k].difficulty_level = d
                /\ ret.scenarios[k].scenario_type = t


(***************************************************************************)
(* RLHFRewardCalculator (reward_calculator.py).  Numbers are exact         *)
(* fractions; power allocations are in units of 0.01.                      *)
(***************************************************************************)
FracSub(a, b) == FracAdd(a, [n |-> -b.n, d |-> b.d])

FracLeq(a, b) == a.n * b.d <= b.n * a.d

\* a component returned without np.clip
unclipped(x, lo, hi) == x

\* np.clip(x, lo, hi)
clip(x, lo, hi) == IF FracLeq(x, lo) THEN lo ELSE IF FracLeq(hi, x) THEN hi ELSE x

Zero == [n |-> 0, d |-> 1]

One == [n |-> 1, d |-> 1]

\* sum(power_allocation.values()) of one satellite action
total_allocation(sat_action) ==
    LET power_mgmt == Get(sat_action, "power_management", EmptyDict)
        power_allocation == Get(power_mgmt, "power_allocation", EmptyDict)
    IN Frac(Get(power_allocation, "payload", 0) + Get(power_allocation, "communication", 0)
               + Get(power_allocation, "attitude_control", 0), 100)

\* satellite_actions.values() in the order of the ids
action_values(satellite_actions) ==
    LET ids == DOMAIN satellite_actions
        nth(k) == CHOOSE id \in ids : Cardinality({x \in ids : x < id}) = k - 1
    IN [k \in 1..Cardinality(ids) |-> satellite_actions[nth(k)]]

\* the missiles with a truthy id that an entry with has_visibility names
seen_missiles(base_data) ==
    LET visibility_data == Get(base_data, "visibility", <<>>)
    IN {Get(visibility_data[k], "missile_id", 0) :
           k \in {i \in 1..Len(visibility_data) :
                     Get(visibility_data[i], "has_visibility", FALSE)}} \ {0}

\* a reward weighted by w hundredths when its flag is set
weighted(flag, w, reward) == IF flag THEN FracMul(Frac(w, 100), reward) ELSE Zero

_calculate_tracking_performance_reward(cfg, state, action, base_data) ==
    LET flags == cfg.reward_components.tracking_performance
        coverage_reward ==
            LET coverage_ratio == Get(state, "coverage_ratio", Zero)
                mission_progress == Get(state, "mission_progress", Zero)
                time_weight == FracAdd(Frac(1, 2), FracMul(Frac(1, 2), mission_progress))
            IN FracMul(coverage_ratio, time_weight)
        accuracy_reward ==
            LET sat_actions == action_values(Get(action, "satellite_actions", EmptyDict))
                score(sat_action) ==
                    LET payload_pointing == Get(sat_action, "payload_pointing", EmptyDict)
                        pointing_mode == Get(payload_pointing, "pointing_mode", "fixed")
                    IN CASE pointing_mode = "tracking" -> Frac(9, 10)
                         [] pointing_mode = "scanning" -> Frac(6, 10)
                         [] OTHER -> Frac(3, 10)
            IN IF sat_actions = <<>> THEN Zero
               ELSE FracMean([k \in 1..Len(sat_actions) |-> score(sat_actions[k])])
        detection_reward ==
            LET active_missiles == Get(state, "active_missiles", 0)
            IN IF active_missiles = 0 THEN One
               ELSE Frac(Cardinality(seen_missiles(base_data)), active_missiles)
        tracking_reward ==
            FracAdd(weighted(flags.coverage_time, 40, coverage_reward),
            FracAdd(weighted(flags.tracking_accuracy, 30, accuracy_reward),
                    weighted(flags.target_detection, 30, detection_reward)))
    IN clip(tracking_reward, Zero, One)

_calculate_resource_efficiency_reward(cfg, state, action, base_data) ==
    LET flags == cfg.reward_components.resource_efficiency
        sat_actions == action_values(Get(action, "satellite_actions", EmptyDict))
        mission_actions == Get(action, "mission_actions", EmptyDict)
        target_assignments == Get(mission_actions, "target_assignments", <<>>)
        \* len() of a dict: the number of its keys
        coordination == Cardinality(DOMAIN Get(mission_actions, "coordination_commands", EmptyDict))
        resource_allocation == Cardinality(DOMAIN Get(mission_actions, "resource_allocation", EmptyDict))
        power_reward ==
            LET efficiency_score(sat_action) ==
                    LET total == total_allocation(sat_action)
                    IN IF FracLeq(total, One)
                       THEN FracSub(One, FracMul(total, Frac(1, 2)))
                       ELSE LET over == FracSub(One, FracSub(total, One))
                            IN IF FracLeq(over, Zero) THEN Zero ELSE over
            IN IF sat_actions = <<>> THEN One
               ELSE FracMean([k \in 1..Len(sat_actions) |-> efficiency_score(sat_actions[k])])
        comm_reward ==
            \* complexity in tenths, max_complexity = 2.0
            LET comm_complexity == Len(sat_actions) + 2 * Len(target_assignments) + 3 * coordination
                efficiency == FracSub(One, Frac(comm_complexity, 20))
            IN IF FracLeq(efficiency, Zero) THEN Zero ELSE efficiency
        comp_reward ==
            \* complexity in tenths, max_complexity = 3.0
            LET per_satellite(sat_action) ==
                    (IF "attitude_control" \in DOMAIN sat_action THEN 3 ELSE 0)
                       + (IF "payload_pointing" \in DOMAIN sat_action THEN 2 ELSE 0)
                comp_complexity ==
                    SumSeq([k \in 1..Len(sat_actions) |-> per_satellite(sat_actions[k])])
                       + Len(target_assignments) + 2 * resource_allocation
                efficiency == FracSub(One, Frac(comp_complexity, 30))
            IN IF FracLeq(efficiency, Zero) THEN Zero ELSE efficiency
        efficiency_reward ==
            FracAdd(weighted(flags.power_consumption, 40, power_reward),
            FracAdd(weighted(flags.communication_bandwidth, 30, comm_reward),
                    weighted(flags.computational_load, 30, comp_reward)))
    IN clip(efficiency_reward, Zero, One)

\* np.std(counts) / np.mean(counts) of one or two counts with a positive
\* mean: 0 for one count, |a - b| / (a + b) for two
std_over_mean(counts) ==
    IF Len(counts) = 1 THEN Zero
    ELSE Frac(Abs(counts[1] - counts[2]), counts[1] + counts[2])

_calculate_response_time_reward(state, action, base_data) ==
    LET mission_actions == Get(action, "mission_actions", EmptyDict)
        target_assignments == Get(mission_actions, "target_assignments", <<>>)
        active_missiles == Get(state, "active_missiles", 0)
    IN IF target_assignments = <<>> THEN Frac(1, 2)
       ELSE IF active_missiles = 0 THEN One
       ELSE FracMin1(Frac(Len(target_assignments), active_missiles))

_calculate_mission_completion_reward(cfg, state, action, base_data) ==
    LET flags == cfg.reward_components.mission_completion
        active_missiles == Get(state, "active_missiles", 0)
        tracked_missiles == seen_missiles(base_data)
        neutralization_reward ==
            LET missile_threat_levels == Get(state, "missile_threat_levels", <<>>)
                missiles == Get(base_data, "missiles", <<>>)
                weight(i) == IF i <= Len(missile_threat_levels)
                             THEN missile_threat_levels[i] ELSE 1
                weighted_score ==
                    SumSeq([i \in 1..Len(missiles) |->
                        IF Get(missiles[i], "missile_id", 0) \in tracked_missiles
                        THEN weight(i) ELSE 0])
                total_weight == SumSeq([i \in 1..Len(missiles) |-> weight(i)])
            IN IF active_missiles = 0 THEN One
               ELSE IF missile_threat_levels # <<>> /\ total_weight > 0
                    THEN Frac(weighted_score, total_weight)
                    ELSE Frac(Cardinality(tracked_missiles), active_missiles)
        response_reward == _calculate_response_time_reward(state, action, base_data)
        completeness_reward ==
            LET visibility_matrix == Get(state, "visibility_matrix", <<>>)
                satellite_coverage == Get(state, "satellite_coverage_counts", <<>>)
                missile_coverage == Get(state, "missile_coverage_counts", <<>>)
                sat_uniformity ==
                    IF satellite_coverage # <<>> /\ SumSeq(satellite_coverage) > 0
                    THEN FracMul(Frac(1, 2),
                             FracSub(One, FracMin1(std_over_mean(satellite_coverage))))
                    ELSE Zero
                uncovered_missiles ==
                    Cardinality({j \in 1..Len(missile_coverage) : missile_coverage[j] = 0})
                coverage_completeness ==
                    IF missile_coverage # <<>>
                    THEN FracMul(Frac(1, 2),
                             FracSub(One, Frac(uncovered_missiles, Len(missile_coverage))))
                    ELSE Zero
            IN IF visibility_matrix = <<>> THEN Zero
               ELSE FracAdd(sat_uniformity, coverage_completeness)
        completion_reward ==
            FracAdd(weighted(flags.threat_neutralization, 50, neutralization_reward),
            FracAdd(weighted(flags.response_time, 30, response_reward),
                    weighted(flags.coverage_completeness, 20, completeness_reward)))
    IN clip(completion_reward, Zero, One)


\* a penalty charged for every allocation, above 1.0 or not
_calculate_resource_waste_penalty_unguarded(state, action) ==
    LET sat_actions == action_values(Get(action, "satellite_actions", EmptyDict))
    IN FracSum([k \in 1..Len(sat_actions) |->
           FracMul(FracSub(total_allocation(sat_actions[k]), One), Frac(1, 2))])

_calculate_resource_waste_penalty(state, action) ==
    LET sat_actions == action_values(Get(action, "satellite_actions", EmptyDict))
        waste(sat_action) ==
            LET total == total_allocation(sat_action)
            IN IF ~FracLeq(total, One)
               THEN FracMul(FracSub(total, One), Frac(1, 2))
               ELSE Zero
    IN FracSum([k \in 1..Len(sat_actions) |-> waste(sat_actions[k])])

_calculate_mission_failure_penalty(state, base_data) ==
    LET coverage_gap_ratio == Get(state, "coverage_gap_ratio", Zero)
        active_missiles == Get(state, "active_missiles", 0)
        active_assignments == Get(state, "active_tracking_assignments", 0)
    IN FracAdd(FracMul(coverage_gap_ratio, Frac(3, 10)),
               IF active_missiles > 0 /\ active_assignments = 0 THEN Frac(1, 2) ELSE Zero)

\* _calculate_false_alarm_penalty returns 0.0
_calculate_penalty_terms(state, action, base_data) ==
    FracAdd(Zero,
    FracAdd(_calculate_resource_waste_penalty(state, action),
            _calculate_mission_failure_penalty(state, base_data)))

\* the reward_breakdown of calculate_total_reward: the components before
\* weighting and the penalty
reward_breakdown(cfg, state, action, base_data) ==
    [tracking_performance |->
         _calculate_tracking_performance_reward(cfg, state, action, base_data),
     resource_efficiency |->
         _calculate_resource_efficiency_reward(cfg, state, action, base_data),
     mission_completion |->
         _calculate_mission_completion_reward(cfg, state, action, base_data),
     penalty |-> _calculate_penalty_terms(state, action, base_data)]

\* reward_weights 0.4, 0.3, 0.3: the weighted sum of the components minus
\* the penalty
total_reward_of(breakdown) ==
    FracSub(FracAdd(FracMul(Frac(4, 10), breakdown.tracking_performance),
            FracAdd(FracMul(Frac(3, 10), breakdown.resource_efficiency),
                    FracMul(Frac(3, 10), breakdown.mission_completion))),
            breakdown.penalty)

calculate_total_reward(cfg, state, action, base_data) ==
    total_reward_of(reward_breakdown(cfg, state, action, base_data))

(***************************************************************************)
(* The calculator driven with states, actions and snapshots that need not  *)
(* agree with each other.                                                  *)
(***************************************************************************)
\* what one satellite is told: the allocations sum to 1.0, 1.2, 0.6 and 3.0
SatelliteActionChoices ==
    {[payload_pointing |-> [pointing_mode |-> "tracking"],
      power_management |-> [power_allocation |->
          [payload |-> 60, communication |-> 20, attitude_control |-> 20]]],
     [payload_pointing |-> [pointing_mode |-> "scanning"],
      power_management |-> [power_allocation |->
          [payload |-> 80, communication |-> 30, attitude_control |-> 10]]],
     [power_management |-> [power_allocation |->
          [payload |-> 30, communication |-> 20, attitude_control |-> 10]]],
     [payload_pointing |-> EmptyDict,
      attitude_control |-> EmptyDict,
      power_management |-> [power_allocation |->
          [payload |-> 200, communication |-> 100, attitude_control |-> 0]]]}

RewardActions ==
    {[satellite_actions |-> satellite_actions, mission_actions |-> mission_actions]
        : satellite_actions \in UNION {[ids -> SatelliteActionChoices]
                                          : ids \in SUBSET {1, 2}},
          mission_actions \in
              {[target_assignments |-> <<>>],
               [target_assignments |-> <<[satellite_id |-> 1, target_id |-> 1],
                                         [satellite_id |-> 2, target_id |-> 2]>>,
                resource_allocation |-> [power |-> 1],
                coordination_commands |-> [collaborative_tracking |-> TRUE]]}}

RewardStates ==
    {LET base == [coverage_ratio |-> coverage_ratio,
                  mission_progress |-> mission_progress,
                  active_missiles |-> active_missiles,
                  visibility_matrix |-> coverage[1],
                  satellite_coverage_counts |-> coverage[2],
                  missile_coverage_counts |-> coverage[3]]
     IN IF extended
        THEN [missile_threat_levels |-> <<2, 3>>,
              coverage_gap_ratio |-> Frac(1, 2),
              active_tracking_assignments |-> 1] @@ base
        ELSE base
        : coverage_ratio \in {Frac(1, 2), Frac(3, 2)},
          mission_progress \in {Frac(3, 10), Frac(2, 1)},
          active_missiles \in 0..2,
          coverage \in {<<<<>>, <<>>, <<>>>>,
                        <<<<<<1>>, <<0>>>>, <<1, 0>>, <<1>>>>,
                        <<<<<<1, 0>>, <<1, 1>>>>, <<1, 2>>, <<2, 1>>>>},
          extended \in BOOLEAN}

RewardSnapshots ==
    {[satellites |-> <<[satellite_id |-> 1]>>,
      missiles |-> <<[missile_id |-> 1], [missile_id |-> 2]>>,
      visibility |-> visibility_of(pairs, FALSE)]
        : pairs \in {{}, {<<1, 1>>}, {<<1, 1>>, <<1, 2>>}}}

\* the calculator keeps nothing between calls, so one call is made in a
\* behaviour
CalculateTotalReward ==
    /\ calls = 0
    /\ calls' = calls + 1
    /\ \E state \in RewardStates, action \in RewardActions, base_data \in RewardSnapshots :
       \E breakdown \in {reward_breakdown(config, state, action, base_data)} :
       /\ ret' = [op |-> "calculate_total_reward", raised |-> FALSE,
                  state |-> state, action |-> action, base_data |-> base_data,
                  breakdown |-> breakdown,
                  resource_waste_penalty |-> _calculate_resource_waste_penalty(state, action),
                  total_reward |-> total_reward_of(breakdown)]
       /\ UNCHANGED <<config, current_strategy, current_simulation_time,
                      collector_vars, validator_vars, deviations, collected>>
    /\ UNCHANGED system

NextReward == CalculateTotalReward

SpecReward == Init /\ [][NextReward]_vars

\* C19: for every state, action and snapshot the components
\* tracking_performance, resource_efficiency and mission_completion each lie in
\* [0, 1] before weighting, and the total reward is a finite number.
C19_ComponentsInUnitInterval ==
    ret.op = "calculate_total_reward"
       => /\ ~ret.raised
          /\ \A component \in {"tracking_performance", "resource_efficiency",
                               "mission_completion"} :
                /\ ret.breakdown[component].d > 0
                /\ 0 <= ret.breakdown[component].n
                /\ ret.breakdown[component].n <= ret.breakdown[component].d
          /\ ret.total_reward.d > 0

\* a state that reports fewer missiles than the snapshot shows: the weighted
\* sum of the tracking rewards exceeds 1 and is clipped
C19_Witness ==
    /\ ret.op = "calculate_total_reward"
    /\ config = ConfigFull
    /\ ret.state.active_missiles = 1
    /\ Cardinality(seen_missiles(ret.base_data)) = 2
    /\ ret.state.coverage_ratio = Frac(3, 2)
    /\ ret.breakdown.tracking_performance = One
    /\ ret.total_reward.n < 0

\* C20: the resource-waste penalty is 0.5 times the sum over the satellite
\* actions of max(0, total power allocation - 1.0); one satellite whose
\* allocation sums to 1.0 gives 0 and one whose allocation sums to 1.2 gives
\* 0.1.  Allocations are in units of 0.01.
C20_WastePenaltyFormula ==
    ret.op = "calculate_total_reward"
       => LET satellite_actions == ret.action.satellite_actions
              ids == DOMAIN satellite_actions
              allocated(id) ==
                  LET power_allocation == satellite_actions[id].power_management.power_allocation
                  IN power_allocation.payload + power_allocation.communication
                        + power_allocation.attitude_control
              \* max(0, total - 1.0) of the satellites 1 and 2, in units of 0.01
              excess(id) == IF id \in ids THEN Max(0, allocated(id) - 100) ELSE 0
              penalty == ret.resource_waste_penalty
          IN /\ penalty.d > 0
             /\ ids \subseteq {1, 2}
             /\ penalty.n * 200 = (excess(1) + excess(2)) * penalty.d
             /\ (ids = {1} /\ allocated(1) = 100) => penalty.n = 0
             /\ (ids = {1} /\ allocated(1) = 120) => penalty.n * 10 = penalty.d

C20_Witness ==
    /\ ret.op = "calculate_total_reward"
    /\ DOMAIN ret.action.satellite_actions = {1, 2}
    /\ ret.action.satellite_actions[1].power_management.power_allocation.payload = 80
    /\ ret.action.satellite_actions[2].power_management.power_allocation.payload = 60
    /\ ret.resource_waste_penalty = Frac(1, 10)


\* C24: the response-time reward is 1.0 when the state reports no active
\* missile and min(1, number of target assignments / number of active
\* missiles) otherwise, also for an action without target assignments.
C24_ResponseTimeRewardFormula ==
    ret.op = "calculate_total_reward"
       => LET active_missiles == ret.state.active_missiles
              assignments == Len(ret.action.mission_actions.target_assignments)
              reward == _calculate_response_time_reward(ret.state, ret.action, ret.base_data)
          IN IF active_missiles = 0
             THEN reward = One
             ELSE reward = FracMin1(Frac(assignments, active_missiles))


\* C23: when robust_defense runs, the priority of a missile follows its threat
\* level in the state and is 2 only when that level is unknown (0 or not
\* listed); the coordination commands are emitted exactly when at least
\* coordination_threshold missiles have a priority of 3 or more; and no such
\* missile is assigned to more than 2 satellites.
C23_RobustDefenseFollowsThreatLevel ==
    (/\ ret.op = "get_expert_action"
     /\ ret.action.strategy_info.strategy_type = "robust_defense"
     /\ AllDicts(ret.base_data.missiles) /\ AllDicts(ret.base_data.satellites))
       => LET missiles == ret.base_data.missiles
              levels == Get(ret.state, "missile_threat_levels", <<>>)
              level(i) == IF i <= Len(levels) THEN levels[i] ELSE 0
              priority(i) == _get_missile_priority(missiles[i], ret.state)
              high == {i \in 1..Len(missiles) : priority(i) >= 3}
              assignments == ret.action.mission_actions.target_assignments
          IN /\ \A i \in 1..Len(missiles) : priority(i) = 2 => level(i) = 0
             /\ ret.action.mission_actions.coordination_commands # EmptyDict
                   <=> Cardinality(high) >= coordination_threshold
             /\ \A i \in high :
                   Cardinality({k \in 1..Len(assignments) :
                       assignments[k].target_id = missiles[i].missile_id}) <= 2


\* C30: for every snapshot the extracted coverage_ratio lies in [0, 1] and is
\* the number of pairs of a satellite and a missile of the snapshot that a
\* visibility entry marks visible, divided by the number of satellites times
\* the number of missiles (0 when that product is 0); so it is positive when
\* some satellite of the snapshot sees some missile of the snapshot, also when
\* the visibility entries name satellites or missiles outside the snapshot.
C30_CoverageRatioCountsOwnPairs ==
    ret.op = "_extract_state_vector"
       => LET satellites == ret.base_data.satellites
              missiles == ret.base_data.missiles
              visibility == ret.base_data.visibility
              visible_pairs ==
                  {<<i, j>> \in (1..Len(satellites)) \X (1..Len(missiles)) :
                      \E k \in 1..Len(visibility) :
                         /\ visibility[k].satellite_id = satellites[i].satellite_id
                         /\ visibility[k].missile_id = missiles[j].missile_id
                         /\ visibility[k].has_visibility}
              total_pairs == Len(satellites) * Len(missiles)
              coverage_ratio == ret.state.coverage_ratio
          IN /\ coverage_ratio.d > 0
             /\ 0 <= coverage_ratio.n /\ coverage_ratio.n <= coverage_ratio.d
             /\ IF total_pairs = 0 THEN coverage_ratio.n = 0
                ELSE coverage_ratio.n * total_pairs
                        = Cardinality(visible_pairs) * coverage_ratio.d
             /\ visible_pairs # {} => coverage_ratio.n > 0


\* C27: whenever validate_rlhf_data_point returns is_valid = False, the
\* errors list of the result is not empty: a rejected point carries at least
\* one reason.
C27_RejectedPointCarriesReason ==
    (ret.op = "validate" /\ ~ret.result.is_valid) => ret.result.errors # <<>>


\* the temporal-consistency warnings among the warnings of a result
temporal_warnings(validation_result) ==
    SelectSeq(validation_result.warnings,
              LAMBDA w : w.text \in {"time_gap_too_large", "time_step_too_small"})

\* C22: the first point validated gets no temporal-consistency warning; a
\* later point gets one exactly when its time gap to the point validated
\* before it is below min_time_step (1 s) or above max_time_gap (3600 s), so
\* a gap inside [min_time_step, max_time_gap] adds none.
C22_TemporalWarningFollowsGap ==
    [][(ret'.op = "validate" /\ calls' = calls + 1)
          => LET time_gap == ret'.data_point.timestamp - LastTimestamp
                 warned == temporal_warnings(ret'.result) # <<>>
             IN IF historical_data = <<>> THEN ~warned
                ELSE warned <=> (time_gap < min_time_step \/ time_gap > max_time_gap)]_vars

\* a later point at a gap of exactly max_time_gap has been validated
C22_Witness ==
    /\ ret.op = "validate"
    /\ Len(historical_data) >= 2
    /\ ret.data_point.timestamp
          = historical_data[Len(historical_data) - 1].timestamp + max_time_gap
    /\ temporal_warnings(ret.result) = <<>>


\* points held by the episodes of a sequence of episode references
points_held(refs) == SumSeq([i \in 1..Len(refs) |-> Len(heap[refs[i]].data_points)])

\* C26: in every reachable collector state the running counters agree:
\* total_data_points = valid_data_points + invalid_data_points, also after
\* collect_rlhf_data_point calls that failed with an internal error.
C26_CountersAgree ==
    collection_stats.total_data_points
        = collection_stats.valid_data_points + collection_stats.invalid_data_points

\* C25: every data point counted in total_data_points is held by exactly one
\* episode: total_data_points is the number of points of the completed
\* episodes plus the number of points of the open episode, for every
\* interleaving of start_episode, collect_rlhf_data_point and end_episode.
C25_CountedPointsBelongToEpisodes ==
    collection_stats.total_data_points
        = points_held(episodes)
          + (IF current_episode # None THEN Len(heap[current_episode].data_points) ELSE 0)


(***************************************************************************)
(* The collector driven as its lifecycle prescribes: an episode is started *)
(* only while none is open, points are collected only into an open         *)
(* episode, and the clock advances only after a collected point.           *)
(***************************************************************************)
MaxSessionCalls == 5

SessionStart ==
    /\ calls < MaxSessionCalls
    /\ current_episode = None
    /\ start_episode("t1", EmptyDict)
    /\ UNCHANGED system

SessionCollect ==
    /\ calls < MaxSessionCalls
    /\ current_episode # None
    /\ LET c == NominalCollect
       IN collect_rlhf_data_point(c.action, c.execute_action, c.source,
                                  c.executor, c.reward, c.finished, TRUE)
    /\ UNCHANGED system

SessionEnd ==
    /\ calls < MaxSessionCalls
    /\ current_episode # None
    /\ \E success \in BOOLEAN : end_episode(success)
    /\ UNCHANGED system

SessionAdvance ==
    /\ ret.op = "collect" /\ ret.returned
    /\ current_simulation_time < StartTime + MaxSessionCalls * NormalStep
    /\ advance_simulation_time
    /\ UNCHANGED system

NextSession == SessionStart \/ SessionCollect \/ SessionEnd \/ SessionAdvance

SpecSession == Init /\ [][NextSession]_vars

\* the time-regression anomalies among the anomalies of a result
time_regressions(validation_result) ==
    SelectSeq(validation_result.anomalies, LAMBDA a : a.text = "time_regression")

\* C28: the first data point collected in an episode gets no
\* temporal-consistency warning and no time-regression anomaly, whatever the
\* timestamps of the points collected in earlier episodes by the same
\* collector.
C28_FirstPointOfEpisodeIsExempt ==
    (/\ ret.op = "collect" /\ ret.returned
     /\ current_episode # None
     /\ Len(heap[current_episode].data_points) = 1)
        => LET validation_result == ret.data_point.info.validation_result
           IN /\ temporal_warnings(validation_result) = <<>>
              /\ time_regressions(validation_result) = <<>>


(***************************************************************************)
(* The scenario driver (rlhf_system.py, _collect_scenario_data): one       *)
(* episode per scenario, a collection loop of at most max_steps steps, and *)
(* end_episode after the loop.  system.pc is the driver's position:        *)
(* "idle" before the first call, "loop" at the head of the while loop,     *)
(* "advance" after a collected point, "end" after the loop, "returned"     *)
(* after a return.                                                         *)
(***************************************************************************)
\* the names bound at module level in rlhf_system.py by its imports
module_names ==
    {"logging", "asyncio", "datetime", "Path", "Dict", "List", "Any", "Optional",
     "json", "RLHFDataCollector", "Episode", "RLHFScenarioGenerator",
     "ScenarioConfig", "get_config_manager", "get_time_manager"}

\* evaluating a global name that is not bound raises NameError
NameError(name) == name \notin module_names

\* the key of a satellite in action["satellite_actions"]
sat_key(sat_id) == IF sat_id = 1 THEN "Satellite01" ELSE "Satellite02"

\* every satellite with a visible missile tracks the first one it sees
_generate_expert_action(base_data) ==
    LET satellites == Get(base_data, "satellites", <<>>)
        visibility == Get(base_data, "visibility", <<>>)
        visible_missiles(sat_id) ==
            SelectSeq(visibility, LAMBDA vis : /\ Get(vis, "satellite_id", None) = sat_id
                                               /\ Get(vis, "has_visibility", FALSE))
        tracking == SelectSeq(satellites,
                        LAMBDA sat : visible_missiles(Get(sat, "satellite_id", None)) # <<>>)
    IN [satellite_actions |->
           [k \in {sat_key(Get(tracking[i], "satellite_id", None)) : i \in 1..Len(tracking)} |->
               [payload_pointing |-> [pointing_mode |-> "tracking"]]],
        mission_actions |->
           [target_assignments |->
               [i \in 1..Len(tracking) |->
                   LET sat_id == Get(tracking[i], "satellite_id", None)
                   IN [satellite_id |-> sat_id,
                       target_id |-> Get(visible_missiles(sat_id)[1], "missile_id", None),
                       priority |-> 1]]]]

\* some point of the open episode has a non-zero cell in its visibility matrix
_evaluate_mission_success ==
    /\ current_episode # None
    /\ \E i \in 1..Len(heap[current_episode].data_points) :
          LET visibility_matrix ==
                  Get(heap[current_episode].data_points[i].state, "visibility_matrix", <<>>)
          IN \E r \in 1..Len(visibility_matrix) :
                \E c \in 1..Len(visibility_matrix[r]) : visibility_matrix[r][c] # 0

MaxScenarioRuns == 2

\* scenario.time_constraints['scenario_duration'] of the scenarios run
ScenarioDurations == {0, 30, 60}

\* what collect_data_at_time gives the driver and the collector in a step
StepSources ==
    {[kind |-> "null"], [kind |-> "raise"],
     [kind |-> "data", base_data |-> Snapshot21],
     [kind |-> "data", base_data |-> SnapshotEmpty]}

\* the except branch of _collect_scenario_data: return None
ReturnNone == [system EXCEPT !.pc = "returned", !.returned = None]

\* lines 201-217: setup, start_episode, the loop's locals
CollectScenarioData_Begin ==
    /\ system.pc \in {"idle", "returned"}
    /\ system.runs < MaxScenarioRuns
    /\ \E setup_raises \in BOOLEAN, scenario_duration \in ScenarioDurations :
          IF setup_raises
          THEN /\ system' = [ReturnNone EXCEPT !.runs = @ + 1, !.started = None,
                                               !.step_count = 0, !.max_steps = 0,
                                               !.episode_done = FALSE]
               /\ UNCHANGED <<config, current_strategy, current_simulation_time,
                              collector_vars, validator_vars, ret, calls, deviations,
                              collected>>
          ELSE /\ start_episode("t1", [time_constraints |->
                                          [scenario_duration |-> scenario_duration]])
               /\ system' = [pc |-> "loop", runs |-> system.runs + 1, step_count |-> 0,
                             max_steps |-> scenario_duration \div NormalStep,
                             episode_done |-> FALSE, started |-> Len(heap) + 1,
                             returned |-> None]

\* lines 219-236 and 241-244: one pass through the loop body up to the
\* collected point
CollectScenarioData_Step ==
    /\ system.pc = "loop"
    /\ ~system.episode_done /\ system.step_count < system.max_steps
    /\ \E outer \in StepSources, inner \in StepSources, finished \in BOOLEAN :
          IF outer.kind = "raise"
          THEN /\ system' = ReturnNone
               /\ UNCHANGED <<config, current_strategy, current_simulation_time,
                              collector_vars, validator_vars, ret, calls, deviations,
                              collected>>
          ELSE IF outer.kind = "null"
          THEN /\ system' = [system EXCEPT !.pc = "end"]
               /\ UNCHANGED <<config, current_strategy, current_simulation_time,
                              collector_vars, validator_vars, ret, calls, deviations,
                              collected>>
          ELSE /\ collect_rlhf_data_point(_generate_expert_action(outer.base_data),
                                          FALSE, inner, "ok", NormalReward, finished, TRUE)
               /\ system' = IF ret'.returned
                            THEN [system EXCEPT !.episode_done = ret'.data_point.done,
                                                !.step_count = @ + 1,
                                                !.pc = "advance"]
                            ELSE [system EXCEPT !.pc = "end"]

\* lines 238-240: next_time = current_time + timedelta(seconds=30) and
\* advance_simulation_time(next_time)
CollectScenarioData_Advance ==
    /\ system.pc = "advance"
    /\ IF NameError("timedelta")
       THEN /\ system' = ReturnNone
            /\ UNCHANGED <<config, current_strategy, current_simulation_time,
                           collector_vars, validator_vars, ret, calls, deviations,
                           collected>>
       ELSE /\ advance_simulation_time
            /\ system' = [system EXCEPT !.pc = "loop"]

\* lines 246-253: end_episode and return episode
CollectScenarioData_End ==
    /\ \/ system.pc = "end"
       \/ /\ system.pc = "loop"
          /\ ~(~system.episode_done /\ system.step_count < system.max_steps)
    /\ end_episode(_evaluate_mission_success)
    /\ system' = [system EXCEPT !.pc = "returned", !.returned = current_episode]

NextSystem ==
    \/ CollectScenarioData_Begin
    \/ CollectScenarioData_Step
    \/ CollectScenarioData_Advance
    \/ CollectScenarioData_End

SpecSystem == Init /\ [][NextSystem]_vars

\* C29: every episode started by _collect_scenario_data is ended: the loop
\* makes at most max_steps successful steps, and when _collect_scenario_data
\* has returned after calling start_episode, normally or after an error
\* inside the loop, the collector has no open episode and the started episode
\* is among the completed episodes.
C29_StartedEpisodeIsEnded ==
    /\ system.step_count <= system.max_steps
    /\ (system.pc = "returned" /\ system.started # None)
          => /\ current_episode = None
             /\ \E i \in 1..Len(episodes) : episodes[i] = system.started


(***************************************************************************)
(* Persistence (rlhf_data_collector.py, _save_json_format, and             *)
(* rlhf_system.py, _convert_episode_to_dict): the completed episodes are   *)
(* converted to dicts, written by json.dump and read back by json.load.    *)
(* A JSON text is the tree of its tokens: number, string, true, false,     *)
(* array and object.  Of each data point the tree holds timestamp, state,  *)
(* action, reward, next_state and done; info and the episode's metadata    *)
(* are written by the same json.dump call and are left out of the tree.    *)
(***************************************************************************)
\* datetime.isoformat()
isoformat(t) == [isoformat |-> t]

\* int and float: json.dump writes repr(x), the shortest text that reads back
\* as x
json_number(x) == [json |-> "number", text |-> x]

json_string(s) == [json |-> "string", text |-> s]

json_bool(b) == [json |-> IF b THEN "true" ELSE "false"]

\* a list of numbers and a list of lists of numbers
json_numbers(v) == [json |-> "array", items |-> [i \in 1..Len(v) |-> json_number(v[i])]]

json_matrix(m) == [json |-> "array", items |-> [i \in 1..Len(m) |-> json_numbers(m[i])]]

\* the state fields holding a list of lists, and those holding a list
matrix_fields ==
    {"satellite_positions", "missile_positions", "visibility_matrix"}

vector_fields ==
    (DOMAIN _get_empty_satellite_state \cup DOMAIN _get_empty_missile_state
        \cup {"satellite_coverage_counts", "missile_coverage_counts"}) \ matrix_fields

\* a state dict: string keys, numeric containers
json_state(state) ==
    [json |-> "object",
     members |-> [k \in DOMAIN state |->
                     IF k \in matrix_fields THEN json_matrix(state[k])
                     ELSE IF k \in vector_fields THEN json_numbers(state[k])
                     ELSE json_number(state[k])]]

\* a dict of numbers, a dict of strings, a dict of dicts of strings
json_number_dict(d) ==
    [json |-> "object", members |-> [k \in DOMAIN d |-> json_number(d[k])]]

json_string_dict(d) ==
    [json |-> "object", members |-> [k \in DOMAIN d |-> json_string(d[k])]]

json_satellite_action(d) ==
    [json |-> "object", members |-> [k \in DOMAIN d |-> json_string_dict(d[k])]]

\* an action dict: satellite_actions by satellite, mission_actions with the
\* list of target assignments
json_action(action) ==
    [json |-> "object",
     members |->
        [k \in DOMAIN action |->
            IF k = "satellite_actions"
            THEN [json |-> "object",
                  members |-> [s \in DOMAIN action[k] |->
                                  json_satellite_action(action[k][s])]]
            ELSE [json |-> "object",
                  members |->
                     [m \in DOMAIN action[k] |->
                         [json |-> "array",
                          items |-> [i \in 1..Len(action[k][m]) |->
                                        json_number_dict(action[k][m][i])]]]]]]

\* json.dump of one converted data point
json_point(point_data) ==
    [json |-> "object",
     members |-> [timestamp |-> json_string(point_data.timestamp),
                  state |-> json_state(point_data.state),
                  action |-> json_action(point_data.action),
                  reward |-> json_number(point_data.reward),
                  next_state |-> json_state(point_data.next_state),
                  done |-> json_bool(point_data.done)]]

\* json.dump of one converted episode; end_time is a string or null
json_episode(episode_data) ==
    [json |-> "object",
     members |-> [episode_id |-> json_string(episode_data.episode_id),
                  scenario_type |-> json_string(episode_data.scenario_type),
                  start_time |-> json_string(episode_data.start_time),
                  end_time |-> IF episode_data.end_time = [isoformat |-> NoTime]
                               THEN [json |-> "null"]
                               ELSE json_string(episode_data.end_time),
                  total_reward |-> json_number(episode_data.total_reward),
                  success |-> json_bool(episode_data.success),
                  data_points |->
                      [json |-> "array",
                       items |-> [i \in 1..Len(episode_data.data_points) |->
                                     json_point(episode_data.data_points[i])]]]]

\* json.dump(data, f) for the dict _save_json_format prepares
json_dump(data) ==
    [json |-> "object",
     members |-> [metadata |-> json_number_dict(data.metadata),
                  episodes |-> [json |-> "array",
                                items |-> [i \in 1..Len(data.episodes) |->
                                              json_episode(data.episodes[i])]]]]

\* json.load: objects to dicts, arrays to lists, numbers, strings and
\* booleans to themselves, null to None
RECURSIVE json_load(_)
json_load(j) ==
    CASE j.json = "number" -> j.text
      [] j.json = "string" -> j.text
      [] j.json = "true" -> TRUE
      [] j.json = "false" -> FALSE
      [] j.json = "null" -> None
      [] j.json = "array" -> [i \in 1..Len(j.items) |-> json_load(j.items[i])]
      [] j.json = "object" -> [k \in DOMAIN j.members |-> json_load(j.members[k])]

\* a conversion that lists the data points newest first
_convert_episode_to_dict_newest_first(episode) ==
    [episode_id |-> episode.episode_id,
     scenario_type |-> episode.scenario_type,
     start_time |-> isoformat(episode.start_time),
     end_time |-> isoformat(episode.end_time),
     total_reward |-> episode.total_reward,
     success |-> episode.success,
     data_points |->
        [i \in 1..Len(episode.data_points) |->
            LET dp == episode.data_points[Len(episode.data_points) + 1 - i]
            IN [timestamp |-> isoformat(dp.timestamp),
                state |-> dp.state,
                action |-> dp.action,
                reward |-> dp.reward,
                next_state |-> dp.next_state,
                done |-> dp.done]]]

\* the dict of one episode, the same in _save_json_format (lines 765-787)
\* and in _convert_episode_to_dict
_convert_episode_to_dict(episode) ==
    [episode_id |-> episode.episode_id,
     scenario_type |-> episode.scenario_type,
     start_time |-> isoformat(episode.start_time),
     end_time |-> isoformat(episode.end_time),
     total_reward |-> episode.total_reward,
     success |-> episode.success,
     data_points |->
        [i \in 1..Len(episode.data_points) |->
            LET dp == episode.data_points[i]
            IN [timestamp |-> isoformat(dp.timestamp),
                state |-> dp.state,
                action |-> dp.action,
                reward |-> dp.reward,
                next_state |-> dp.next_state,
                done |-> dp.done]]]

\* the dict _save_json_format prepares from self.episodes
_save_json_format(timestamp) ==
    [metadata |-> [total_episodes |-> Len(episodes),
                   total_data_points |-> points_held(episodes)],
     episodes |-> [i \in 1..Len(episodes) |-> _convert_episode_to_dict(heap[episodes[i]])]]

\* the collect calls of a session that is saved: the nominal call, a snapshot
\* without satellites and threats, the driver's expert action with another
\* reward, and a finished simulation
SavedCollects ==
    {NominalCollect,
     [NominalCollect EXCEPT !.source = [kind |-> "data", base_data |-> SnapshotEmpty]],
     [NominalCollect EXCEPT !.action = _generate_expert_action(Snapshot21), !.reward = -2],
     [NominalCollect EXCEPT !.finished = TRUE]}

SavedCollect ==
    /\ calls < MaxSessionCalls
    /\ current_episode # None
    /\ \E c \in SavedCollects :
          collect_rlhf_data_point(c.action, c.execute_action, c.source,
                                  c.executor, c.reward, c.finished, TRUE)
    /\ UNCHANGED system

\* save_rlhf_data("json") and a json.load of the file it wrote
SaveRlhfData ==
    /\ ret.op # "save_rlhf_data"
    /\ ret' = [op |-> "save_rlhf_data",
               loaded |-> json_load(json_dump(_save_json_format(current_simulation_time)))]
    /\ UNCHANGED <<config, current_strategy, current_simulation_time, collector_vars,
                   validator_vars, calls, deviations, collected, system>>

NextSave == SessionStart \/ SavedCollect \/ SessionEnd \/ SaveRlhfData

SpecSave == Init /\ [][NextSave]_vars

====
